---- MODULE Spec2Model ----
(***************************************************************************)
(* Host-side runtime for OPA policies compiled to WebAssembly               *)
(* (matrix-org/rust-opa-wasm).                                              *)
(*                                                                          *)
(* The model follows one host task through Runtime construction            *)
(* (policy.rs, Runtime::new_with_evaluation_context), Runtime::with_data    *)
(* and repeated Policy::evaluate calls.  Every `.await` on a guest export   *)
(* is a position of the task (pc); while an export is in flight the guest   *)
(* may return, trap, call opa_abort / opa_println or call one of the        *)
(* opa_builtinN trampolines (tr).  The guest is the environment: its bump   *)
(* heap, its linear memory and the documents it hands back are chosen       *)
(* from small sets.                                                         *)
(***************************************************************************)
EXTENDS Integers, Sequences, FiniteSets, TLC

(***************************************************************************)
(* Bounds of the model                                                      *)
(***************************************************************************)
\* evaluate calls that get past the entrypoint lookup, callbacks of the
\* guest (opa_builtinN, opa_println) and ticks of the wall clock, together,
\* per behaviour
MaxOps == 4
\* largest n passed to rand.intn
MaxN == 2
\* ABI numbers tried by the version check: -MaxVer .. MaxVer
MaxVer == 6

(***************************************************************************)
(* Program constants                                                        *)
(***************************************************************************)
\* types.rs:64  let page_size = 64 * 1024;
page_size == 65536
\* policy.rs:231  MemoryType::new(2, None)
InitialPages == 2
\* types.rs:47-50  ptr: i32, len: i32 (i32::MAX)
i32_MAX == 2147483647
\* U+FFFD, the replacement character of CStr::to_string_lossy
REPLACEMENT_CHARACTER == 65533

(***************************************************************************)
(* Results                                                                  *)
(***************************************************************************)
Ok(v) == [ok |-> TRUE, val |-> <<v>>, err |-> ""]
Err(e) == [ok |-> FALSE, val |-> <<>>, err |-> e]
Val(r) == r.val[1]

\* the empty HashMap
EmptyMap == <<>>

(***************************************************************************)
(* types.rs: AbiVersion                                                     *)
(***************************************************************************)
\* AbiVersion::new: the match on (major, minor).  `n @ 2..` is 2..=i32::MAX.
AbiVersion_new_any_major(major, minor) ==
    IF minor = 0 THEN Ok([tag |-> "V1_0", n |-> 0])
    ELSE IF minor = 1 THEN Ok([tag |-> "V1_1", n |-> 1])
    ELSE IF minor = 2 THEN Ok([tag |-> "V1_2", n |-> 2])
    ELSE IF minor >= 2 THEN Ok([tag |-> "V1_2Plus", n |-> minor])
    ELSE Err("unsupported ABI version")

AbiVersion_new(major, minor) ==
    IF major = 1 /\ minor = 0 THEN Ok([tag |-> "V1_0", n |-> 0])
    ELSE IF major = 1 /\ minor = 1 THEN Ok([tag |-> "V1_1", n |-> 1])
    ELSE IF major = 1 /\ minor = 2 THEN Ok([tag |-> "V1_2", n |-> 2])
    ELSE IF major = 1 /\ minor >= 2 THEN Ok([tag |-> "V1_2Plus", n |-> minor])
    ELSE Err("unsupported ABI version")

\* AbiVersion::has_eval_fastpath
has_eval_fastpath(version) == version.tag \in {"V1_2", "V1_2Plus"}

(***************************************************************************)
(* types.rs: Heap                                                           *)
(***************************************************************************)
\* the builds of the crate: with overflow checks (debug) and without
Builds == {"debug", "release"}

\* the sum of two non-negative i32 does not fit in an i32
i32_add_overflows(a, b) == a > i32_MAX - b

\* a + b on two non-negative i32 in a build without overflow checks: the
\* sum modulo 2^32, taken in -2^31 .. 2^31 - 1
i32_wrapping_add(a, b) ==
    IF i32_add_overflows(a, b)
    THEN (a - i32_MAX - 1) + (b - i32_MAX - 1)
    ELSE a + b

\* a / b and a % b on i32 with b > 0: the quotient is truncated towards
\* zero and the remainder has the sign of a
i32_div(a, b) ==
    IF a < 0 /\ a % b # 0 THEN (a \div b) + 1 ELSE a \div b
i32_rem(a, b) == a - b * i32_div(a, b)

\* Heap::end; with overflow checks the addition panics instead of wrapping
\* when Heap_end_overflows
Heap_end(h) == i32_wrapping_add(h.ptr, h.len)
Heap_end_overflows(h) == i32_add_overflows(h.ptr, h.len)

\* Heap::pages, the i32 it computes before .try_into().expect(..)
Heap_pages(h) ==
    LET addr == Heap_end(h)
        page == i32_div(addr, page_size)
    IN  IF i32_rem(addr, page_size) > 0 THEN page + 1 ELSE page

\* Heap::pages panics: in end() with overflow checks, or in
\* .expect("invalid heap address") when the page count is negative
Heap_pages_panics(h, build) ==
    \/ build = "debug" /\ Heap_end_overflows(h)
    \/ Heap_pages(h) < 0

\* what a call of Heap::pages comes to
\* types.rs:76-83: Drop for Heap logs a warning when the handle was not freed
Heap_drop_warns(freed) == ~freed

Heap_pages_call(h, build) ==
    IF build = "debug" /\ Heap_end_overflows(h)
    THEN Err("attempt to add with overflow")
    ELSE IF Heap_pages(h) < 0 THEN Err("invalid heap address")
    ELSE Ok(Heap_pages(h))

(***************************************************************************)
(* Guest memory.  `m` maps the addresses that were written to their byte;   *)
(* every other address below pages * page_size holds 0.                     *)
(***************************************************************************)
MemSize(pages) == pages * page_size

ByteAt(m, a) == IF a \in DOMAIN m THEN m[a] ELSE 0

\* Memory::write: fails when [addr, addr + len) is out of bounds
Memory_write(m, pages, addr, bytes) ==
    IF addr < 0 \/ addr + Len(bytes) > MemSize(pages)
    THEN Err("out of bounds write")
    ELSE Ok([a \in DOMAIN m \cup {addr + i - 1 : i \in 1..Len(bytes)} |->
                IF a >= addr /\ a < addr + Len(bytes)
                THEN bytes[a - addr + 1] ELSE m[a]])

RECURSIVE BytesUntilNul(_, _, _)
\* the bytes from a up to (not including) the first zero byte, or "none"
\* (as <<-1>>) when the end of memory is reached first
BytesUntilNul(m, size, a) ==
    IF a >= size THEN <<-1>>
    ELSE IF ByteAt(m, a) = 0 THEN <<>>
    ELSE LET rest == BytesUntilNul(m, size, a + 1)
         IN  IF rest = <<-1>> THEN rest ELSE <<ByteAt(m, a)>> \o rest

NulStr_read_unchecked(m, pages, addr) ==
    LET bytes == BytesUntilNul(m, MemSize(pages), addr)
    IN  IF bytes = <<-1>> THEN Err("malformed string") ELSE Ok(bytes)

\* NulStr::read
NulStr_read(m, pages, addr) ==
    IF addr < 0 THEN Err("invalid address")
    ELSE IF addr > MemSize(pages) THEN Err("memory address out of bounds")
    ELSE LET bytes == BytesUntilNul(m, MemSize(pages), addr)
         IN  IF bytes = <<-1>> THEN Err("malformed string") ELSE Ok(bytes)

to_string_unchecked(bytes) == bytes

\* CStr::to_string_lossy on the bytes of the model (ASCII and bytes that are
\* never valid in UTF-8): an invalid byte becomes U+FFFD
to_string_lossy(bytes) ==
    [i \in 1..Len(bytes) |->
        IF bytes[i] < 128 THEN bytes[i] ELSE REPLACEMENT_CHARACTER]

(***************************************************************************)
(* context.rs: DefaultContext                                               *)
(***************************************************************************)
\* serde_json::to_string of the cache key tuple ("rand", str, n): the JSON
\* array text ["rand","<str>",<n>], kept as its three components
rand_cache_key(str, n) == <<"rand", str, n>>

\* DefaultContext::default
DefaultContext_default == [cache |-> EmptyMap, evaluation_time |-> 0]

evaluation_start_keeping_cache(c, now) ==
    [cache |-> c.cache, evaluation_time |-> now]

\* DefaultContext::evaluation_start (TestContext::evaluation_start forwards)
evaluation_start(c, now) ==
    [cache |-> EmptyMap, evaluation_time |-> now]

\* DefaultContext::now
now(c) == c.evaluation_time

\* DefaultContext::cache_get
cache_get(c, key) ==
    IF key \in DOMAIN c.cache THEN <<c.cache[key]>> ELSE <<>>

\* DefaultContext::cache_set
cache_set(c, key, content) ==
    [c EXCEPT !.cache =
        [k \in DOMAIN c.cache \cup {key} |->
            IF k = key THEN content ELSE c.cache[k]]]

(***************************************************************************)
(* JSON at the boundary.  Documents are kept as the bytes serde_json        *)
(* produces for them.                                                       *)
(***************************************************************************)
RECURSIVE u64_digits(_)
u64_digits(n) ==
    IF n < 10 THEN <<48 + n>> ELSE u64_digits(n \div 10) \o <<48 + (n % 10)>>

\* serde_json::to_vec of an i64
i64_to_vec(n) == IF n < 0 THEN <<45>> \o u64_digits(0 - n) ELSE u64_digits(n)

\* serde_json::to_vec of the documents callers pass as data and input
to_vec(doc) ==
    CASE doc = "{}"      -> <<123, 125>>
      [] doc = "{\"x\":1}" -> <<123, 34, 120, 34, 58, 49, 125>>
      [] doc = "true"    -> <<116, 114, 117, 101>>
      [] doc = "[{}]"    -> <<91, 123, 125, 93>>

\* serde_json::from_slice on the texts of the model: the document whose
\* text the bytes are, or a syntax error
from_slice(bytes) ==
    LET docs == {"{}", "{\"x\":1}", "true", "[{}]"}
    IN  IF \E d \in docs : to_vec(d) = bytes
        THEN Ok(CHOOSE d \in docs : to_vec(d) = bytes)
        ELSE Err("expected value")

as_bytes_without_nul(bytes) == bytes

\* CString::new(value).as_bytes_with_nul() in alloc_str
as_bytes_with_nul(bytes) == bytes \o <<0>>

\* arguments of a builtin call as the guest holds them: a JSON string or a
\* JSON integer
JStr(s) == [t |-> "string", v |-> s, n |-> 0]
JInt(i) == [t |-> "number", v |-> "", n |-> i]

(***************************************************************************)
(* builtins/impls                                                           *)
(***************************************************************************)
intn_no_cache(c, str, n, rnd) ==
    IF n = 0 THEN [ctx |-> c, ret |-> Ok(0), cache_ops |-> <<>>]
    ELSE IF n < 0
    THEN [ctx |-> c, ret |-> Err("rand.intn: n must be a positive integer"),
          cache_ops |-> <<>>]
    ELSE [ctx |-> cache_set(c, rand_cache_key(str, n), rnd), ret |-> Ok(rnd),
          cache_ops |-> <<"set">>]

intn_cache_before_checks(c, str, n, rnd) ==
    LET cache_key == rand_cache_key(str, n)
        hit == cache_get(c, cache_key)
    IN  IF hit # <<>>
        THEN [ctx |-> c, ret |-> Ok(hit[1]), cache_ops |-> <<"get">>]
        ELSE IF n < 0
        THEN [ctx |-> c,
              ret |-> Err("rand.intn: n must be a positive integer"),
              cache_ops |-> <<"get">>]
        ELSE LET val == IF n = 0 THEN 0 ELSE rnd
             IN  [ctx |-> cache_set(c, cache_key, val), ret |-> Ok(val),
                  cache_ops |-> <<"get", "set">>]

\* rand::intn; rnd is the value rng.gen_range(0..n) draws, cache_ops the
\* calls made of cache_get and cache_set
intn(c, str, n, rnd) ==
    IF n = 0 THEN [ctx |-> c, ret |-> Ok(0), cache_ops |-> <<>>]
    ELSE IF n < 0
    THEN [ctx |-> c, ret |-> Err("rand.intn: n must be a positive integer"),
          cache_ops |-> <<>>]
    ELSE LET cache_key == rand_cache_key(str, n)
             hit == cache_get(c, cache_key)
         IN  IF hit # <<>>
             THEN [ctx |-> c, ret |-> Ok(hit[1]), cache_ops |-> <<"get">>]
             ELSE [ctx |-> cache_set(c, cache_key, rnd), ret |-> Ok(rnd),
                   cache_ops |-> <<"get", "set">>]

\* time::now_ns: Utc::now().timestamp_nanos(); wall is the wall clock
now_ns(c, wall) == wall

\* uuid::rfc4122
rfc4122(k) == Err("not implemented")

\* the names builtins::resolve matches (all features enabled)
ResolvedNames ==
    {"base64url.encode_no_pad", "crypto.hmac.md5", "crypto.hmac.sha1",
     "crypto.hmac.sha256", "crypto.hmac.sha512", "crypto.md5", "crypto.sha1",
     "crypto.sha256", "crypto.x509.parse_and_verify_certificates",
     "crypto.x509.parse_certificate_request", "crypto.x509.parse_certificates",
     "crypto.x509.parse_rsa_private_key", "glob.quote_meta",
     "graph.reachable_paths", "graphql.is_valid", "graphql.parse",
     "graphql.parse_and_verify", "graphql.parse_query", "graphql.parse_schema",
     "hex.decode", "hex.encode", "http.send", "indexof_n", "io.jwt.decode",
     "io.jwt.decode_verify", "io.jwt.encode_sign", "io.jwt.encode_sign_raw",
     "io.jwt.verify_es256", "io.jwt.verify_es384", "io.jwt.verify_es512",
     "io.jwt.verify_hs256", "io.jwt.verify_hs384", "io.jwt.verify_hs512",
     "io.jwt.verify_ps256", "io.jwt.verify_ps384", "io.jwt.verify_ps512",
     "io.jwt.verify_rs256", "io.jwt.verify_rs384", "io.jwt.verify_rs512",
     "json.patch", "net.cidr_contains_matches", "net.cidr_expand",
     "net.cidr_merge", "net.lookup_ip_addr", "object.union_n", "opa.runtime",
     "rand.intn", "regex.find_n", "regex.globs_match", "regex.split",
     "regex.template_match", "rego.parse_module", "semver.compare",
     "semver.is_valid", "sprintf", "time.add_date", "time.clock", "time.date",
     "time.diff", "time.now_ns", "time.parse_duration_ns", "time.parse_ns",
     "time.parse_rfc3339_ns", "time.weekday", "trace", "units.parse",
     "units.parse_bytes", "urlquery.decode", "urlquery.decode_object",
     "urlquery.encode", "urlquery.encode_object", "uuid.rfc4122",
     "yaml.is_valid", "yaml.marshal", "yaml.unmarshal"}

\* builtins::resolve
resolve(name) ==
    IF name \in ResolvedNames THEN Ok(name) ELSE Err("unknown builtin")

\* the wrapped function of the builtins the model calls (BuiltinFunc::call):
\* arity check, deserialisation of each argument, the function, to_vec
Builtin_call(name, c, args, rnd, wall) ==
    CASE name = "rand.intn" ->
            IF Len(args) # 2
            THEN [ctx |-> c, ret |-> Err("invalid arguments")]
            ELSE IF args[1].t # "string"
            THEN [ctx |-> c, ret |-> Err("failed to convert first argument")]
            ELSE IF args[2].t # "number"
            THEN [ctx |-> c, ret |-> Err("failed to convert second argument")]
            ELSE LET r == intn(c, args[1].v, args[2].n, rnd)
                 IN  [ctx |-> r.ctx,
                      ret |-> IF r.ret.ok THEN Ok(i64_to_vec(Val(r.ret)))
                              ELSE r.ret]
      [] name = "time.now_ns" ->
            IF Len(args) # 0
            THEN [ctx |-> c, ret |-> Err("invalid arguments")]
            ELSE [ctx |-> c, ret |-> Ok(i64_to_vec(now_ns(c, wall)))]
      [] name = "uuid.rfc4122" ->
            IF Len(args) # 1
            THEN [ctx |-> c, ret |-> Err("invalid arguments")]
            ELSE IF args[1].t # "string"
            THEN [ctx |-> c, ret |-> Err("failed to convert first argument")]
            ELSE [ctx |-> c, ret |-> rfc4122(args[1].v)]

\* the maps id -> name a HashMap can hold after the pairs (id, name) of the
\* names were collected into it in some order: the last pair of an id wins,
\* so an id that several names have keeps any one of them
collect(map, names) ==
    {r \in [{map[k] : k \in names} -> names] :
        \A id \in DOMAIN r : map[r[id]] = id}

from_map_skip_unknown(map) ==
    {Ok(r) : r \in collect(map, {x \in DOMAIN map : resolve(x).ok})}

\* LoadedBuiltins::from_map, the results it can have: the resolve error of
\* a name, or one of the maps id -> name the iteration order of the HashMap
\* it is given can leave
from_map(map) ==
    IF \E k \in DOMAIN map : ~resolve(k).ok
    THEN {Err("unknown builtin")}
    ELSE {Ok(r) : r \in collect(map, DOMAIN map)}

builtins_get_or_first(builtins, builtin_id) ==
    IF builtin_id \in DOMAIN builtins THEN Ok(builtins[builtin_id])
    ELSE IF DOMAIN builtins # {}
    THEN Ok(builtins[CHOOSE i \in DOMAIN builtins : TRUE])
    ELSE Err("unknown builtin id")

\* self.builtins.get(&builtin_id).with_context(..)? in LoadedBuiltins::builtin
builtins_get(builtins, builtin_id) ==
    IF builtin_id \in DOMAIN builtins THEN Ok(builtins[builtin_id])
    ELSE Err("unknown builtin id")

(***************************************************************************)
(* The guest module (environment)                                           *)
(***************************************************************************)
\* first address of the guest bump heap
GuestHeapBase == 131060
\* bytes the guest heap takes for an evaluation context or a dumped string
GuestObjSize == 8

\* exports Runtime::new_with_evaluation_context binds unconditionally
RequiredExports ==
    {"eval", "builtins", "entrypoints", "opa_eval_ctx_new",
     "opa_eval_ctx_set_input", "opa_eval_ctx_set_data",
     "opa_eval_ctx_set_entrypoint", "opa_eval_ctx_get_result", "opa_malloc",
     "opa_free", "opa_json_parse", "opa_json_dump", "opa_heap_ptr_set",
     "opa_heap_ptr_get"}

AllExports == RequiredExports \cup {"opa_eval"}

\* builtins() maps of the modules tried: name -> id
GoodBuiltins ==
    [k \in {"rand.intn", "time.now_ns", "uuid.rfc4122"} |->
        CASE k = "rand.intn" -> 0 [] k = "time.now_ns" -> 1
          [] k = "uuid.rfc4122" -> 2]

BadBuiltins ==
    [k \in {"rand.intn", "regex.match"} |->
        CASE k = "rand.intn" -> 0 [] k = "regex.match" -> 1]

\* a map that gives two names the same id
SharedIdBuiltins == [k \in {"rand.intn", "time.now_ns"} |-> 0]

\* entrypoints() map of the modules tried: path -> id
ModEntrypoints == [k \in {"fixtures"} |-> 0]

\* strings in the data segment: "boom\0" at 1024, the bytes FF 21 00 at
\* 1040 and two non-zero bytes filling the end of the initial memory
MsgAddr == 1024
BadUtf8Addr == 1040
DataSegment ==
    [a \in {1024, 1025, 1026, 1027, 1040, 1041, 131070, 131071} |->
        CASE a = 1024 -> 98 [] a = 1025 -> 111 [] a = 1026 -> 111
          [] a = 1027 -> 109 [] a = 1040 -> 255 [] a = 1041 -> 33
          [] a = 131070 -> 33 [] a = 131071 -> 33]

Mod(abi, exports, builtins) ==
    [abi |-> abi, exports |-> exports, builtins |-> builtins,
     entrypoints |-> ModEntrypoints]

\* the modules tried: ABI 1.1 (with an opa_eval export), ABI 1.2,
\* ABI 1.2 without opa_eval, an unsupported ABI, a builtin the host does
\* not know, a missing required export, two builtins under one id
Modules ==
    {Mod(<<1, 1>>, AllExports, GoodBuiltins),
     Mod(<<1, 2>>, AllExports, SharedIdBuiltins),
     Mod(<<1, 2>>, AllExports, GoodBuiltins),
     Mod(<<1, 2>>, RequiredExports, GoodBuiltins),
     Mod(<<2, 0>>, AllExports, GoodBuiltins),
     Mod(<<1, 1>>, AllExports, BadBuiltins),
     Mod(<<1, 2>>, AllExports \ {"opa_heap_ptr_get"}, GoodBuiltins)}

Max(a, b) == IF a >= b THEN a ELSE b

PagesFor(addr) == (addr + page_size - 1) \div page_size

\* the guest bump allocator: the block starts at the heap pointer, the
\* pointer moves past it and the guest grows its memory to cover it
GuestAlloc(h, pg, n) ==
    [ptr |-> h, heap |-> h + n, pages |-> Max(pg, PagesFor(h + n))]

(***************************************************************************)
(* State                                                                    *)
(***************************************************************************)
VARIABLES
    module,          \* the wasm module given to Runtime::new
    pc,              \* position of the host task (the export in flight)
    tr,              \* the builtin trampoline in progress, if any
    version,         \* Runtime.version
    loaded_builtins, \* Runtime.loaded_builtins (the OnceCell)
    entrypoints,     \* Runtime.entrypoints
    opa_eval_func,   \* Runtime.opa_eval_func is Some
    ctx,             \* LoadedBuiltins.context (the value in the Mutex)
    locked,          \* the Mutex is held
    pages,           \* size of the linear memory, in pages
    mem,             \* bytes written to the linear memory
    heap,            \* the guest heap pointer
    policy,          \* Policy.data and Policy.heap_ptr
    ev,              \* locals of the operation in progress
    clock,           \* the wall clock
    result,          \* what the last operation returned
    log,             \* host/guest interactions of the operation in progress
    evals,           \* evaluations started so far
    calls,           \* callbacks the guest has made so far
    rets,            \* the <<k, n, v>> rand.intn returned in this evaluation
    nows,            \* values returned by time.now_ns in this evaluation
    handed,          \* what the last builtin callback returned to the guest
    http,            \* an http.send call made on its own: locals of send
    fcall            \* a builtin function called on its own: inputs and result

vars == <<module, pc, tr, version, loaded_builtins, entrypoints,
          opa_eval_func, ctx, locked, pages, mem, heap, policy, ev, clock,
          result, log, evals, calls, rets, nows, handed, http, fcall>>

rtv == <<version, loaded_builtins, entrypoints, opa_eval_func>>
cxv == <<ctx, locked>>
gmv == <<pages, mem, heap>>
histv == <<rets, nows, handed>>
fnv == <<http, fcall>>

\* what the behaviour has spent of its bound
Ops == evals + calls + clock

(***************************************************************************)
(* serde_json::Value                                                       *)
(***************************************************************************)
\* the variants of serde_json::Value; an Object holds its <<key, value>>
\* pairs (field m) and an Array its elements (field a)
Null == [t |-> "null", b |-> FALSE, n |-> 0, s |-> "", a |-> <<>>, m |-> {}]
Bool(b) == [Null EXCEPT !.t = "bool", !.b = b]
Number(n) == [Null EXCEPT !.t = "number", !.n = n]
String(s) == [Null EXCEPT !.t = "string", !.s = s]
Array(a) == [Null EXCEPT !.t = "array", !.a = a]
Object(m) == [Null EXCEPT !.t = "object", !.m = m]

\* Option: None is <<>>, Some(x) is <<x>>
unwrap_or(o, default) == IF o = <<>> THEN default ELSE o[1]

\* Map::get
Map_get(m, key) ==
    IF \E p \in m : p[1] = key
    THEN <<(CHOOSE p \in m : p[1] = key)[2]>>
    ELSE <<>>

\* Map::insert: the value of an existing key is replaced
Map_insert(m, key, value) == {p \in m : p[1] # key} \cup {<<key, value>>}

\* Value::get with a string index
Value_get(value, key) ==
    IF value.t = "object" THEN Map_get(value.m, key) ELSE <<>>

\* Option<&Value>::and_then(Value::as_bool)
as_bool(o) == IF o # <<>> /\ o[1].t = "bool" THEN <<o[1].b>> ELSE <<>>

\* Option<&Value>::and_then(Value::as_u64)
as_u64(o) ==
    IF o # <<>> /\ o[1].t = "number" /\ o[1].n >= 0 THEN <<o[1].n>> ELSE <<>>

\* Option<&Value>::and_then(Value::as_str)
as_str(o) == IF o # <<>> /\ o[1].t = "string" THEN <<o[1].s>> ELSE <<>>

\* no http.send call and no builtin call is being made on its own
NoHttp ==
    [pc |-> "none", opa_req |-> Null, attempt |-> 0,
     http_resp_res |-> [ok |-> FALSE, val |-> <<>>, err |-> ""], sent |-> 0,
     slept |-> <<>>, ret |-> [ok |-> FALSE, val |-> <<>>, err |-> ""]]
NoCall ==
    [pc |-> "none", name |-> "", args |-> <<>>,
     ret |-> [ok |-> FALSE, val |-> <<>>, err |-> ""], invoked |-> FALSE,
     prev |-> <<>>, held |-> <<>>]

NoTr == [pc |-> "none", id |-> -1, name |-> "", args |-> <<>>, i |-> 0,
         json |-> <<>>, ptr |-> 0, len |-> 0, data |-> 0, log |-> <<>>]
NoVersion == [tag |-> "none", n |-> 0]
Unset == [set |-> FALSE, builtins |-> EmptyMap]
NoPolicy == [data |-> -1, heap_ptr |-> -1]
NoEv == [name |-> "", entrypoint |-> -1, doc |-> "", bytes |-> <<>>,
         ptr |-> 0, len |-> 0, input |-> -1, ectx |-> -1, resv |-> -1,
         start_heap |-> -1, moved |-> FALSE, after |-> "none",
         freed |-> TRUE]
NoResult == [kind |-> "none", ok |-> FALSE, val |-> <<>>, err |-> "",
             msg |-> <<>>, by |-> <<>>, unfreed |-> FALSE]

\* what an operation returned; msg holds the text of an opa_abort error, by
\* the host import whose error it is, with the address or id it was given,
\* unfreed whether a Heap was dropped with freed = false (types.rs:76-83)
Returned(kind, r, msg) ==
    [kind |-> kind, ok |-> r.ok, val |-> r.val, err |-> r.err, msg |-> msg,
     by |-> <<>>, unfreed |-> FALSE]

\* how the previous operation on the Policy ended, as the next evaluate
\* finds it: with a guest trap raised by opa_abort or by a failing builtin,
\* dropped, or otherwise
Outcome(r) ==
    IF r.kind = "dropped" THEN "dropped"
    ELSE IF r.kind = "evaluate" /\ ~r.ok /\ r.by # <<>>
            /\ r.by[1] \in {"opa_abort", "opa_builtin"}
    THEN "trap"
    ELSE "other"

\* positions of Runtime::new_with_evaluation_context, Runtime::with_data
\* and Policy::evaluate at which a guest export is in flight
\* construction before the module is instantiated: Memory::new_async is
\* awaited, then the imports are wired
SetupPcs == {"memory_new", "linked"}
NewPcs == {"instantiate", "builtins", "builtins_dump", "entrypoints",
           "entrypoints_dump"}
WithDataPcs == {"wd_malloc", "wd_parse", "wd_free", "wd_heap_ptr_get"}
ClassicPcs == {"c_heap_ptr_set", "c_malloc", "c_parse", "c_free",
               "c_ctx_new", "c_set_data", "c_set_input", "c_set_entrypoint",
               "c_eval", "c_get_result", "c_dump"}
FastPcs == {"f_opa_eval"}
\* the fast path awaits grow_async before it writes the input
GrowPcs == {"f_grow"}
\* the positions of an evaluation past evaluation_start
StartedPcs == ClassicPcs \cup FastPcs \cup GrowPcs
EvalPcs == StartedPcs \cup {"ev_lock"}
InFlight == NewPcs \cup WithDataPcs \cup ClassicPcs \cup FastPcs
\* exports that run policy code and may call back into the host
GuestCodePcs == {"instantiate", "builtins", "entrypoints", "c_eval",
                 "f_opa_eval"}

call_async_returned_while_suspended(at) == pc = at

\* the call_async future of the export the task is at has resolved: the guest
\* ran to its end, which it does not do while an import it called is pending
call_async_returned(at) == pc = at /\ tr.pc = "none"

OpName == IF pc \in SetupPcs \cup NewPcs THEN "new"
          ELSE IF pc \in WithDataPcs THEN "with_data" ELSE "evaluate"

\* the operation in progress returns Err(msg): a failed evaluate leaves the
\* Policy in place, a failed construction or with_data leaves nothing
\* the task holds the Heap returned by alloc_str: from the return of
\* opa_malloc in load_json or in the trampoline until opa_free has returned
HoldsHeap_from_call ==
    \/ pc \in {"wd_parse", "c_parse", "wd_free", "c_free"}
    \/ tr.pc \in {"call", "malloc", "parse", "free"}
    \/ pc \in FastPcs \cup GrowPcs /\ Heap_drop_warns(ev.freed)

HoldsHeap ==
    \/ pc \in {"wd_parse", "c_parse", "wd_free", "c_free"}
    \/ tr.pc \in {"parse", "free"}
    \/ pc \in FastPcs \cup GrowPcs /\ Heap_drop_warns(ev.freed)

FailedHolding(by, e, msg, holding) ==
    /\ pc' = IF pc \in EvalPcs THEN "idle" ELSE "failed"
    /\ result' = [Returned(OpName, Err(e), msg) EXCEPT !.by = by,
                                                      !.unfreed = holding]
    /\ tr' = NoTr
    /\ ev' = NoEv
    /\ log' = <<>>
    /\ calls' = calls

Failed(by, e, msg) == FailedHolding(by, e, msg, HoldsHeap)

Fail(e) == Failed(<<>>, e, <<>>)

Init ==
    /\ module \in Modules
    /\ pc = "start"
    /\ tr = NoTr
    /\ version = NoVersion
    /\ loaded_builtins = Unset
    /\ entrypoints = EmptyMap
    /\ opa_eval_func = FALSE
    /\ ctx = DefaultContext_default
    /\ locked = FALSE
    /\ pages = 0
    /\ mem = <<>>
    /\ heap = GuestHeapBase
    /\ policy = NoPolicy
    /\ ev = NoEv
    /\ clock = 0
    /\ result = NoResult
    /\ log = <<>>
    /\ evals = 0
    /\ calls = 0
    /\ rets = <<>>
    /\ nows = {}
    /\ handed = 0 - 1
    /\ http = NoHttp
    /\ fcall = NoCall

(***************************************************************************)
(* Runtime::new_with_evaluation_context                                     *)
(***************************************************************************)
\* policy.rs:231-232: Memory::new_async is called for a memory of two pages
\* and awaited
Runtime_new ==
    /\ pc = "start"
    /\ log' = <<<<"Memory::new", InitialPages>>>>
    /\ pc' = "memory_new"
    /\ UNCHANGED <<module, tr, rtv, cxv, gmv, policy, ev, clock, result,
                   evals, calls, histv>>
    /\ UNCHANGED fnv

\* policy.rs:232-371: Memory::new_async returned.  The Store of the caller
\* grants the memory or refuses it (its ResourceLimiter, or the host has no
\* memory left): refused, the `?` returns the error; granted, the memory is
\* defined as env.memory and opa_abort, opa_println and opa_builtin0..4 are
\* wrapped, on a Linker that holds nothing else
new_after_memory ==
    /\ pc = "memory_new"
    /\ \E granted \in BOOLEAN :
         IF ~granted
         THEN /\ Fail("failed to create memory")
              /\ UNCHANGED gmv
         ELSE /\ pages' = InitialPages
              /\ log' = log \o <<<<"linker.define">>, <<"linker.func_wrap">>>>
              /\ pc' = "linked"
              /\ UNCHANGED <<tr, result, ev, calls, mem, heap>>
    /\ UNCHANGED <<module, rtv, cxv, policy, clock, evals, histv>>
    /\ UNCHANGED fnv

\* policy.rs:373: instantiate_async is called and awaited; the instance has
\* the data segments of the module in its memory
new_instantiate ==
    /\ pc = "linked"
    /\ mem' = DataSegment
    /\ log' = Append(log, <<"instantiate">>)
    /\ pc' = "instantiate"
    /\ UNCHANGED <<module, tr, rtv, cxv, pages, heap, policy, ev, clock,
                   result, evals, calls, histv>>
    /\ UNCHANGED fnv

\* policy.rs:375-383: read and check the ABI version, bind opa_json_dump
\* and builtins, call builtins()
new_after_instantiate ==
    /\ call_async_returned("instantiate")
    /\ LET v == AbiVersion_new(module.abi[1], module.abi[2])
       IN  IF ~v.ok
           THEN /\ Fail(v.err)
                /\ UNCHANGED version
           ELSE IF {"opa_json_dump", "builtins"} \subseteq module.exports
           THEN /\ version' = Val(v)
                /\ log' = log \o <<<<"AbiVersion::from_instance">>,
                                    <<"builtins">>>>
                /\ pc' = "builtins"
                /\ UNCHANGED <<tr, result, ev, calls>>
           ELSE /\ version' = Val(v)
                /\ Fail("could not find export")
    /\ UNCHANGED <<module, loaded_builtins, entrypoints, opa_eval_func, cxv,
                   gmv, policy, clock, evals, histv>>
    /\ UNCHANGED fnv

\* policy.rs:384-386, funcs.rs:404: opa_json_dump of the builtins value
new_after_builtins ==
    /\ call_async_returned("builtins")
    /\ log' = Append(log, <<"opa_json_dump">>)
    /\ pc' = "builtins_dump"
    /\ UNCHANGED <<module, tr, rtv, cxv, gmv, policy, ev, clock, result,
                   evals, calls, histv>>
    /\ UNCHANGED fnv

OnceCell_set_nothing(cell, value) == Ok(cell)

\* OnceCell::set as called at policy.rs:388: stores the value in an empty
\* cell and fails on a cell that holds one
OnceCell_set(cell, value) ==
    IF cell.set THEN Err("already initialized")
    ELSE Ok([set |-> TRUE, builtins |-> value])

\* policy.rs:384-393: decode the map, LoadedBuiltins::from_map, publish the
\* registry, bind and call entrypoints()
new_after_builtins_dump ==
    /\ call_async_returned("builtins_dump")
    /\ \E r \in from_map(module.builtins) :
       LET cell == IF r.ok THEN OnceCell_set(loaded_builtins, Val(r)) ELSE r
       IN  IF ~cell.ok
           THEN /\ Fail(cell.err)
                /\ UNCHANGED loaded_builtins
           ELSE IF "entrypoints" \in module.exports
           THEN /\ loaded_builtins' = Val(cell)
                /\ log' = log \o <<<<"OnceCell::set">>, <<"entrypoints">>>>
                /\ pc' = "entrypoints"
                /\ UNCHANGED <<tr, result, ev, calls>>
           ELSE /\ loaded_builtins' = Val(cell)
                /\ Fail("could not find export")
    /\ UNCHANGED <<module, version, entrypoints, opa_eval_func, cxv, gmv,
                   policy, clock, evals, histv>>
    /\ UNCHANGED fnv

\* policy.rs:394-396: opa_json_dump of the entrypoints value
new_after_entrypoints ==
    /\ call_async_returned("entrypoints")
    /\ log' = Append(log, <<"opa_json_dump">>)
    /\ pc' = "entrypoints_dump"
    /\ UNCHANGED <<module, tr, rtv, cxv, gmv, policy, ev, clock, result,
                   evals, calls, histv>>
    /\ UNCHANGED fnv

opa_eval_binding_or_none(v, exports) ==
    Ok(has_eval_fastpath(v) /\ "opa_eval" \in exports)

\* policy.rs:398-401: version.has_eval_fastpath().then(from_instance)
\* .transpose()?
opa_eval_binding(v, exports) ==
    IF has_eval_fastpath(v)
    THEN IF "opa_eval" \in exports THEN Ok(TRUE)
         ELSE Err("could not find export")
    ELSE Ok(FALSE)

\* policy.rs:394-430: decode the entrypoints, bind opa_eval when the ABI
\* has the fast path, bind the other exports, return the Runtime
new_after_entrypoints_dump ==
    /\ call_async_returned("entrypoints_dump")
    /\ LET b == opa_eval_binding(version, module.exports)
       IN  IF ~b.ok
           THEN /\ Fail(b.err)
                /\ UNCHANGED <<entrypoints, opa_eval_func>>
           ELSE IF ~(RequiredExports \subseteq module.exports)
           THEN /\ Fail("could not find export")
                /\ UNCHANGED <<entrypoints, opa_eval_func>>
           ELSE /\ entrypoints' = module.entrypoints
                /\ opa_eval_func' = Val(b)
                /\ pc' = "runtime"
                /\ result' = Returned("new", Ok("Runtime"), <<>>)
                /\ log' = <<>>
                /\ UNCHANGED <<tr, ev, calls>>
    /\ UNCHANGED <<module, version, loaded_builtins, cxv, gmv, policy, clock,
                   evals, histv>>
    /\ UNCHANGED fnv

(***************************************************************************)
(* load_json / alloc_str (policy.rs:35-69), shared by with_data and the     *)
(* classic path of evaluate                                                 *)
(***************************************************************************)
\* load_json up to the opa_malloc call: serialise, add the NUL
load_json_start(doc) ==
    LET value == as_bytes_with_nul(to_vec(doc))
    IN  [bytes |-> value, len |-> Len(value)]

\* policy.rs:43-66: opa_malloc returned; write the bytes, call opa_json_parse
load_json_after_malloc ==
    /\ pc \in {"wd_malloc", "c_malloc"} /\ tr.pc = "none"
    /\ LET a == GuestAlloc(heap, pages, ev.len)
           w == Memory_write(mem, a.pages, a.ptr, ev.bytes)
       IN  /\ heap' = a.heap
           /\ pages' = a.pages
           /\ IF ~w.ok
              THEN /\ FailedHolding(<<>>, w.err, <<>>, TRUE)
                   /\ UNCHANGED mem
              ELSE /\ mem' = Val(w)
                   /\ ev' = [ev EXCEPT !.ptr = a.ptr]
                   /\ log' = log \o <<<<"memory.write", a.ptr, Len(ev.bytes)>>,
                                      <<"opa_json_parse", a.ptr, ev.len>>>>
                   /\ pc' = IF pc = "wd_malloc" THEN "wd_parse" ELSE "c_parse"
                   /\ UNCHANGED <<tr, result, calls>>
    /\ UNCHANGED <<module, rtv, cxv, policy, clock, evals, histv>>
    /\ UNCHANGED fnv

\* policy.rs:66-67: opa_json_parse returned the Value; call opa_free
load_json_after_parse ==
    /\ pc \in {"wd_parse", "c_parse"} /\ tr.pc = "none"
    /\ LET a == GuestAlloc(heap, pages, ev.len)
       IN  /\ heap' = a.heap
           /\ pages' = a.pages
           /\ ev' = [ev EXCEPT !.input = a.ptr]
    /\ log' = Append(log, <<"opa_free", ev.ptr>>)
    /\ pc' = IF pc = "wd_parse" THEN "wd_free" ELSE "c_free"
    /\ UNCHANGED <<module, tr, rtv, cxv, mem, policy, clock, result, evals,
                   calls, histv>>
    /\ UNCHANGED fnv

export_after_load_json_without_ctx(at) ==
    IF at = "wd_free" THEN "opa_heap_ptr_get" ELSE "opa_eval_ctx_set_data"

\* policy.rs:473 and 590: the export the caller of load_json calls once
\* load_json has returned: opa_heap_ptr_get in with_data, opa_eval_ctx_new
\* in evaluate
export_after_load_json(at) ==
    IF at = "wd_free" THEN "opa_heap_ptr_get" ELSE "opa_eval_ctx_new"

\* policy.rs:67-68 and the caller's next export call
load_json_after_free ==
    /\ pc \in {"wd_free", "c_free"} /\ tr.pc = "none"
    /\ log' = Append(log, <<export_after_load_json(pc)>>)
    /\ pc' = IF pc = "wd_free" THEN "wd_heap_ptr_get" ELSE "c_ctx_new"
    /\ UNCHANGED <<module, tr, rtv, cxv, gmv, policy, ev, clock, result,
                   evals, calls, histv>>
    /\ UNCHANGED fnv

(***************************************************************************)
(* Runtime::with_data (policy.rs:467-479)                                   *)
(***************************************************************************)
DataDocs == {"{}"}

with_data(data) ==
    /\ pc = "runtime"
    /\ LET j == load_json_start(data)
       IN  /\ ev' = [NoEv EXCEPT !.doc = data, !.bytes = j.bytes,
                                  !.len = j.len]
           /\ log' = <<<<"opa_malloc", j.len>>>>
    /\ pc' = "wd_malloc"
    /\ result' = NoResult
    /\ UNCHANGED <<module, tr, rtv, cxv, gmv, policy, clock, evals, calls,
                   histv>>
    /\ UNCHANGED fnv

\* policy.rs:473-478: opa_heap_ptr_get returned; build the Policy
with_data_after_heap_ptr_get ==
    /\ call_async_returned("wd_heap_ptr_get")
    /\ policy' = [data |-> ev.input, heap_ptr |-> heap]
    /\ pc' = "idle"
    /\ result' = Returned("with_data", Ok("Policy"), <<>>)
    /\ ev' = NoEv
    /\ log' = <<>>
    /\ UNCHANGED <<module, tr, rtv, cxv, gmv, clock, evals, calls, histv>>
    /\ UNCHANGED fnv

(***************************************************************************)
(* Policy::evaluate (policy.rs:518-627)                                     *)
(***************************************************************************)
InputDocs == {"{\"x\":1}"}
EntrypointNames == {"fixtures", "nope"}
\* the JSON text the guest produces as the result of an evaluation
ResultDoc == "[{}]"

OpaEval_call_heap_at_input(entrypoint, data, input, heap_ptr) ==
    <<"opa_eval", 0, entrypoint, data, input.ptr, input.len, input.ptr, 0>>

\* funcs.rs:553-572: OpaEval::call passes (0, entrypoint, data, input.ptr,
\* input.len, heap_ptr, 0) to the export
OpaEval_call(entrypoint, data, input, heap_ptr) ==
    <<"opa_eval", 0, entrypoint, data, input.ptr, input.len, heap_ptr, 0>>

\* addresses the guest's opa_eval returns: the string it has just written
\* on its heap, or a string of its data segment that is not JSON
ResultAddrs(fresh) == {fresh, BadUtf8Addr}

entrypoints_get_or_default(map, name) ==
    IF name \in DOMAIN map THEN Ok(map[name]) ELSE Ok(0)

\* policy.rs:528-532: self.runtime.entrypoints.get(entrypoint)
\* .with_context(..)?
entrypoints_get(map, name) ==
    IF name \in DOMAIN map THEN Ok(map[name])
    ELSE Err("could not find entrypoint")

\* policy.rs:527-538: the entrypoint lookup; on success the task goes on to
\* wait for the context mutex in LoadedBuiltins::evaluation_start
evaluate(name, input) ==
    /\ pc = "idle"
    /\ LET e == entrypoints_get(entrypoints, name)
       IN  IF ~e.ok
           THEN /\ result' = Returned("evaluate", e, <<>>)
                /\ ev' = [NoEv EXCEPT !.name = name]
                /\ UNCHANGED <<pc, log, evals>>
           ELSE /\ Ops < MaxOps
                /\ evals' = evals + 1
                /\ ev' = [NoEv EXCEPT !.name = name, !.entrypoint = Val(e),
                                      !.doc = input,
                                      !.moved = (heap # policy.heap_ptr),
                                      !.after = Outcome(result)]
                /\ result' = NoResult
                /\ log' = <<>>
                /\ pc' = "ev_lock"
    /\ UNCHANGED <<module, tr, rtv, cxv, gmv, policy, clock, calls, histv>>
    /\ UNCHANGED fnv

evaluate_rewind_target_data(p) == p.data

Policy_after_evaluate_saving_heap(p, h) == [p EXCEPT !.heap_ptr = h]

\* policy.rs:518-523: evaluate borrows the Policy with &self; its data and
\* heap_ptr are what with_data stored, whatever the guest heap has become
Policy_after_evaluate(p, h) == p

\* policy.rs:583: the address evaluate passes to opa_heap_ptr_set
evaluate_rewind_target(p) == p.heap_ptr

grow_delta_whole(current_pages, needed_pages) ==
    IF current_pages < needed_pages THEN needed_pages ELSE 0

\* policy.rs:552-559: the number of pages evaluate asks grow_async for
grow_delta(current_pages, needed_pages) ==
    IF current_pages < needed_pages THEN needed_pages - current_pages ELSE 0

\* policy.rs:149-151 and 534-584: the context mutex is acquired,
\* evaluation_start runs and the guard is dropped.  Then, with opa_eval
\* (fast path, 541-573): serialise the input, grow the memory if needed,
\* write the input at the saved heap pointer and call opa_eval; without it
\* (classic path, 580-584): call opa_heap_ptr_set.
input_heap_not_freed == FALSE

\* policy.rs:545-550: the handle on the input is built with freed: true, the
\* region is not managed by a malloc
input_heap_freed == TRUE

\* policy.rs:560-573: the input is written at the saved heap pointer in a
\* memory of now_pages pages and opa_eval is called with the end of the input
\* as the heap pointer; sofar is what the evaluation has logged
evaluate_write_input(input, input_heap, now_pages, sofar) ==
    LET w == Memory_write(mem, now_pages, input_heap.ptr, input)
        heap_ptr == Heap_end(input_heap)
    IN  /\ pages' = now_pages
        /\ IF ~w.ok
           THEN /\ FailedHolding(<<>>, w.err, <<>>,
                                 Heap_drop_warns(input_heap_freed))
                /\ UNCHANGED <<mem, heap>>
           ELSE /\ mem' = Val(w)
                /\ ev' = [ev EXCEPT !.bytes = input,
                                    !.freed = input_heap_freed,
                                    !.ptr = input_heap.ptr,
                                    !.len = input_heap.len,
                                    !.start_heap = heap]
                /\ log' = sofar
                       \o <<<<"memory.write", input_heap.ptr, Len(input)>>,
                            OpaEval_call(ev.entrypoint, policy.data,
                                         input_heap, heap_ptr)>>
                \* the guest's opa_eval starts its heap at heap_ptr
                /\ heap' = heap_ptr
                /\ pc' = "f_opa_eval"
                /\ UNCHANGED <<tr, result, calls>>

evaluate_start ==
    /\ pc = "ev_lock" /\ ~locked
    /\ ctx' = evaluation_start(ctx, clock)
    /\ rets' = <<>>
    /\ nows' = {}
    /\ handed' = 0 - 1
    /\ IF opa_eval_func
       THEN LET input == to_vec(ev.doc)
                input_heap == [ptr |-> policy.heap_ptr, len |-> Len(input)]
                current_pages == pages
                needed_pages == Heap_pages(input_heap)
                delta == grow_delta(current_pages, needed_pages)
            IN  IF Len(input) > i32_MAX
                THEN /\ Fail("input too long")
                     /\ UNCHANGED gmv
                ELSE IF \E build \in Builds :
                            Heap_pages_panics(input_heap, build)
                THEN \* Heap::pages panics (types.rs:58-73)
                     /\ pc' = "panicked"
                     /\ result' = Returned("panic",
                                           Heap_pages_call(input_heap,
                                                           "debug"), <<>>)
                     /\ UNCHANGED <<tr, gmv, ev, log, calls>>
                ELSE IF current_pages < needed_pages
                THEN \* policy.rs:554-559: grow_async is called and awaited;
                     \* the memory is as it was until the call returns
                     /\ ev' = [ev EXCEPT !.bytes = input,
                                         !.freed = input_heap_freed,
                                         !.ptr = input_heap.ptr,
                                         !.len = input_heap.len,
                                         !.start_heap = heap]
                     /\ log' = <<<<"evaluation_start">>,
                                 <<"memory.grow", delta>>>>
                     /\ pc' = "f_grow"
                     /\ UNCHANGED <<tr, result, calls, gmv>>
                ELSE evaluate_write_input(input, input_heap, current_pages,
                                          <<<<"evaluation_start">>>>)
       ELSE /\ log' = <<<<"evaluation_start">>,
                        <<"opa_heap_ptr_set", evaluate_rewind_target(policy)>>>>
            /\ pc' = "c_heap_ptr_set"
            /\ UNCHANGED <<tr, result, gmv, ev, calls>>
    /\ UNCHANGED <<module, rtv, locked, policy, clock, evals>>
    /\ UNCHANGED fnv

\* policy.rs:555-573: grow_async returned.  The Store of the caller grants
\* the pages or refuses them (its ResourceLimiter, or the host has no
\* memory left): refused, the `?` returns the error with the memory as it
\* was; granted, the input is written and opa_eval is called
evaluate_after_grow ==
    /\ pc = "f_grow"
    /\ \E granted \in BOOLEAN :
         LET input_heap == [ptr |-> ev.ptr, len |-> ev.len]
             delta == grow_delta(pages, Heap_pages(input_heap))
         IN  IF ~granted
             THEN /\ Fail("failed to grow memory")
                  /\ UNCHANGED gmv
             ELSE evaluate_write_input(ev.bytes, input_heap, pages + delta,
                                       log)
    /\ UNCHANGED <<module, rtv, cxv, policy, clock, evals, histv>>
    /\ UNCHANGED fnv

\* policy.rs:576-578: opa_eval returned the address of the result string
evaluate_after_opa_eval ==
    /\ call_async_returned("f_opa_eval")
    /\ LET a == GuestAlloc(heap, pages, GuestObjSize)
           \* the guest has written the result text on its heap
           written == Val(Memory_write(mem, a.pages, a.ptr,
                                       as_bytes_with_nul(to_vec(ResultDoc))))
       IN  /\ heap' = a.heap
           /\ pages' = a.pages
           /\ mem' = written
           /\ \E addr \in ResultAddrs(a.ptr) :
                LET str == NulStr_read(written, a.pages, addr)
                    doc == IF str.ok THEN from_slice(Val(str)) ELSE str
                IN  IF ~doc.ok
                    THEN Fail(doc.err)
                    ELSE /\ ev' = NoEv
                         /\ log' = <<>>
                         /\ result' = [Returned("evaluate", doc, <<>>)
                                          EXCEPT !.unfreed =
                                                   Heap_drop_warns(ev.freed)]
                         /\ pc' = "idle"
                         /\ UNCHANGED <<tr, calls>>
    /\ policy' = Policy_after_evaluate(policy, heap')
    /\ UNCHANGED <<module, rtv, cxv, clock, evals, histv>>
    /\ UNCHANGED fnv

\* policy.rs:581-587: opa_heap_ptr_set returned; load_json starts
evaluate_after_heap_ptr_set ==
    /\ call_async_returned("c_heap_ptr_set")
    /\ heap' = evaluate_rewind_target(policy)
    /\ LET j == load_json_start(ev.doc)
       IN  /\ ev' = [ev EXCEPT !.bytes = j.bytes, !.len = j.len,
                               !.start_heap = heap']
           /\ log' = Append(log, <<"opa_malloc", j.len>>)
    /\ pc' = "c_malloc"
    /\ UNCHANGED <<module, tr, rtv, cxv, pages, mem, policy, clock, result,
                   evals, calls, histv>>
    /\ UNCHANGED fnv

\* policy.rs:590-596: opa_eval_ctx_new returned; set the data location
evaluate_after_ctx_new ==
    /\ call_async_returned("c_ctx_new")
    /\ LET a == GuestAlloc(heap, pages, GuestObjSize)
       IN  /\ heap' = a.heap
           /\ pages' = a.pages
           /\ ev' = [ev EXCEPT !.ectx = a.ptr]
           /\ log' = Append(log, <<"opa_eval_ctx_set_data", a.ptr,
                                   policy.data>>)
    /\ pc' = "c_set_data"
    /\ UNCHANGED <<module, tr, rtv, cxv, mem, policy, clock, result, evals,
                   calls, histv>>
    /\ UNCHANGED fnv

\* policy.rs:598-601: set the input location
evaluate_after_set_data ==
    /\ call_async_returned("c_set_data")
    /\ log' = Append(log, <<"opa_eval_ctx_set_input", ev.ectx, ev.input>>)
    /\ pc' = "c_set_input"
    /\ UNCHANGED <<module, tr, rtv, cxv, gmv, policy, ev, clock, result,
                   evals, calls, histv>>
    /\ UNCHANGED fnv

\* policy.rs:604-607: set the entrypoint
evaluate_after_set_input ==
    /\ call_async_returned("c_set_input")
    /\ log' = Append(log, <<"opa_eval_ctx_set_entrypoint", ev.ectx,
                            ev.entrypoint>>)
    /\ pc' = "c_set_entrypoint"
    /\ UNCHANGED <<module, tr, rtv, cxv, gmv, policy, ev, clock, result,
                   evals, calls, histv>>
    /\ UNCHANGED fnv

\* policy.rs:610: call eval
evaluate_after_set_entrypoint ==
    /\ call_async_returned("c_set_entrypoint")
    /\ log' = Append(log, <<"eval", ev.ectx>>)
    /\ pc' = "c_eval"
    /\ UNCHANGED <<module, tr, rtv, cxv, gmv, policy, ev, clock, result,
                   evals, calls, histv>>
    /\ UNCHANGED fnv

\* policy.rs:613-617: eval returned; get the result
evaluate_after_eval ==
    /\ call_async_returned("c_eval")
    /\ LET a == GuestAlloc(heap, pages, GuestObjSize)
       IN  /\ heap' = a.heap
           /\ pages' = a.pages
           /\ ev' = [ev EXCEPT !.resv = a.ptr]
    /\ log' = Append(log, <<"opa_eval_ctx_get_result", ev.ectx>>)
    /\ pc' = "c_get_result"
    /\ UNCHANGED <<module, tr, rtv, cxv, mem, policy, clock, result, evals,
                   calls, histv>>
    /\ UNCHANGED fnv

\* policy.rs:619-623: opa_json_dump of the result
evaluate_after_get_result ==
    /\ call_async_returned("c_get_result")
    /\ log' = Append(log, <<"opa_json_dump", ev.resv>>)
    /\ pc' = "c_dump"
    /\ UNCHANGED <<module, tr, rtv, cxv, gmv, policy, ev, clock, result,
                   evals, calls, histv>>
    /\ UNCHANGED fnv

\* funcs.rs:404-407, policy.rs:625: read and decode the dumped result
evaluate_after_dump ==
    /\ call_async_returned("c_dump")
    /\ LET a == GuestAlloc(heap, pages, GuestObjSize)
       IN  /\ heap' = a.heap
           /\ pages' = a.pages
    /\ ev' = NoEv
    /\ log' = <<>>
    /\ result' = Returned("evaluate", Ok(ResultDoc), <<>>)
    /\ pc' = "idle"
    /\ policy' = Policy_after_evaluate(policy, heap')
    /\ UNCHANGED <<module, tr, rtv, cxv, mem, clock, evals, calls, histv>>
    /\ UNCHANGED fnv

(***************************************************************************)
(* Imports: opa_builtin0..4 and LoadedBuiltins::builtin (policy.rs:102-147, *)
(* 263-371), opa_abort (240-250), opa_println (252-261)                     *)
(***************************************************************************)
Keys == {"a", "b"}
Ns == {0 - 1, 0, MaxN}
\* an id outside every builtins() map of the modules tried
UnknownId == 3
\* the trampoline calls the guest makes, <<builtin_id, args>>: rand.intn
\* with a key and a bound and with a number in place of the key,
\* time.now_ns, uuid.rfc4122 and the unknown id
GuestCalls ==
    {<<0, <<JStr(k), JInt(n)>>>> : k \in Keys, n \in Ns}
        \cup {<<0, <<JInt(1), JInt(1)>>>>, <<1, <<>>>>, <<2, <<JStr("a")>>>>,
              <<UnknownId, <<JStr("a")>>>>}
\* addresses the guest passes to opa_abort and opa_println
MsgAddrs == {0 - 1, MsgAddr, BadUtf8Addr, 131070, 131080, 400000}

\* the exports LoadedBuiltins::builtin binds from the caller
TrampolineExports ==
    {"opa_json_dump", "opa_json_parse", "opa_malloc", "opa_free"}

\* a guest export called by the top-level operation or by the trampoline is
\* running guest code
GuestRunning ==
    /\ pc \in InFlight
    /\ tr.pc \in {"none", "dump", "malloc", "parse", "free"}

\* values rng.gen_range(0..n) can draw for this call
RndRange(name, args) ==
    IF name = "rand.intn" /\ Len(args) = 2 /\ args[2].t = "number"
       /\ args[2].n > 0
    THEN 0 .. (args[2].n - 1) ELSE {0}

OnceCell_get_or_empty(cell) == <<cell.builtins>>

\* OnceCell::get as called at policy.rs:272: the value of the cell, if any
OnceCell_get(cell) == IF cell.set THEN <<cell.builtins>> ELSE <<>>

\* policy.rs:268-276 and 109-126: the trampoline starts: registry lookup,
\* export bindings, first opa_json_dump call
opa_builtin(builtin_id, args) ==
    /\ pc \in GuestCodePcs /\ tr.pc = "none"
    /\ Ops < MaxOps
    /\ pc \in NewPcs => args = <<>>
    /\ IF OnceCell_get(loaded_builtins) = <<>>
       THEN \* .expect("builtins where never initialized")
            /\ pc' = "panicked"
            /\ result' = Returned("panic",
                                  Err("builtins where never initialized"),
                                  <<>>)
            /\ UNCHANGED <<tr, calls, ev, log>>
       ELSE LET b == builtins_get(OnceCell_get(loaded_builtins)[1],
                                  builtin_id)
            IN  IF ~b.ok
                THEN Failed(<<"opa_builtin", builtin_id>>, b.err, <<>>)
                ELSE IF ~(TrampolineExports \subseteq module.exports)
                THEN Failed(<<"opa_builtin", builtin_id>>,
                            "could not find export", <<>>)
                ELSE /\ calls' = calls + 1
                     /\ IF Len(args) = 0
                        THEN tr' = [NoTr EXCEPT !.pc = "lock",
                                                !.id = builtin_id,
                                                !.name = Val(b),
                                                !.args = args]
                        ELSE tr' = [NoTr EXCEPT !.pc = "dump",
                                                !.id = builtin_id,
                                                !.name = Val(b),
                                                !.args = args, !.i = 1,
                                                !.log = <<<<"opa_json_dump",
                                                           1>>>>]
                     /\ UNCHANGED <<pc, result, ev, log>>
    /\ UNCHANGED <<module, rtv, cxv, gmv, policy, clock, evals, histv>>
    /\ UNCHANGED fnv

\* policy.rs:124-133: opa_json_dump returned; dump the next argument or
\* read every dumped string
builtin_after_dump ==
    /\ pc \in InFlight /\ tr.pc = "dump"
    /\ LET a == GuestAlloc(heap, pages, GuestObjSize)
       IN  /\ heap' = a.heap
           /\ pages' = a.pages
    /\ IF tr.i < Len(tr.args)
       THEN tr' = [tr EXCEPT !.i = tr.i + 1,
                             !.log = Append(@, <<"opa_json_dump", tr.i + 1>>)]
       ELSE tr' = [tr EXCEPT !.pc = "lock",
                             !.log = Append(@, <<"NulStr::read">>)]
    /\ UNCHANGED <<module, pc, rtv, cxv, mem, policy, ev, clock, result,
                   log, evals, calls, histv>>
    /\ UNCHANGED fnv

\* policy.rs:135: self.context.lock().await
builtin_lock ==
    /\ pc \in InFlight /\ tr.pc = "lock"
    /\ ~locked
    /\ locked' = TRUE
    /\ tr' = [tr EXCEPT !.pc = "call", !.log = Append(@, <<"lock">>)]
    /\ UNCHANGED <<module, pc, rtv, ctx, gmv, policy, ev, clock, result,
                   log, evals, calls, histv>>
    /\ UNCHANGED fnv

held_after_call_on_error(ret) == ~ret.ok

held_after_call_on_success(ret) == ret.ok

\* policy.rs:138-140: the guard is moved into the async block that calls
\* the function and is dropped with it, whatever the function returned
held_after_call(ret) == FALSE

\* policy.rs:138-142: the registered function runs; on Ok the result is
\* handed to alloc_str, which calls opa_malloc
builtin_call ==
    /\ pc \in InFlight /\ tr.pc = "call"
    /\ \E rnd \in RndRange(tr.name, tr.args) :
        LET r == Builtin_call(tr.name, ctx, tr.args, rnd, clock)
            value == as_bytes_with_nul(Val(r.ret))
        IN  /\ ctx' = r.ctx
            /\ locked' = held_after_call(r.ret)
            /\ IF ~r.ret.ok
               THEN /\ Failed(<<"opa_builtin", tr.id>>, r.ret.err, <<>>)
                    /\ UNCHANGED histv
               ELSE /\ tr' = [tr EXCEPT !.pc = "malloc", !.json = value,
                                        !.len = Len(value),
                                        !.log = @ \o <<<<"call", tr.name>>,
                                                       <<"unlock">>,
                                                       <<"opa_malloc",
                                                         Len(value)>>>>]
                    /\ rets' = IF tr.name = "rand.intn"
                               THEN Append(rets,
                                           <<tr.args[1].v, tr.args[2].n,
                                             Val(intn(ctx, tr.args[1].v,
                                                      tr.args[2].n,
                                                      rnd).ret)>>)
                               ELSE rets
                    /\ nows' = IF tr.name = "time.now_ns"
                               THEN nows \cup {now_ns(ctx, clock)}
                               ELSE nows
                    /\ UNCHANGED <<pc, result, calls, ev, log, handed>>
    /\ UNCHANGED <<module, rtv, gmv, policy, clock, evals>>
    /\ UNCHANGED fnv

\* policy.rs:43-53, 142-143: opa_malloc returned; write the result, call
\* opa_json_parse
builtin_after_malloc ==
    /\ pc \in InFlight /\ tr.pc = "malloc"
    /\ LET a == GuestAlloc(heap, pages, tr.len)
           w == Memory_write(mem, a.pages, a.ptr, tr.json)
       IN  /\ heap' = a.heap
           /\ pages' = a.pages
           /\ IF ~w.ok
              THEN /\ FailedHolding(<<"opa_builtin", tr.id>>, w.err, <<>>,
                                    TRUE)
                   /\ UNCHANGED mem
              ELSE /\ mem' = Val(w)
                   /\ tr' = [tr EXCEPT
                               !.pc = "parse", !.ptr = a.ptr,
                               !.log = @ \o <<<<"memory.write", a.ptr,
                                               Len(tr.json)>>,
                                             <<"opa_json_parse", a.ptr,
                                               tr.len>>>>]
                   /\ UNCHANGED <<pc, result, calls, ev, log>>
    /\ UNCHANGED <<module, rtv, cxv, policy, clock, evals, histv>>
    /\ UNCHANGED fnv

\* policy.rs:143-144: opa_json_parse returned; call opa_free
builtin_after_parse ==
    /\ pc \in InFlight /\ tr.pc = "parse"
    /\ LET a == GuestAlloc(heap, pages, tr.len)
       IN  /\ heap' = a.heap
           /\ pages' = a.pages
           /\ tr' = [tr EXCEPT !.pc = "free", !.data = a.ptr,
                                !.log = Append(@, <<"opa_free", tr.ptr>>)]
    /\ UNCHANGED <<module, pc, rtv, cxv, mem, policy, ev, clock, result,
                   log, evals, calls, histv>>
    /\ UNCHANGED fnv

builtin_ret_buffer(t) == t.ptr

\* policy.rs:143-146: Ok(data.0), data being what opa_json_parse returned
builtin_ret(t) == t.data

\* policy.rs:144-146: opa_free returned; the trampoline returns the handle
builtin_after_free ==
    /\ pc \in InFlight /\ tr.pc = "free"
    /\ handed' = builtin_ret(tr)
    /\ tr' = NoTr
    /\ UNCHANGED <<module, pc, rtv, cxv, gmv, policy, ev, clock, result,
                   log, evals, calls, rets, nows>>
    /\ UNCHANGED fnv

\* policy.rs:243-249: opa_abort reads the message and bails with it
opa_abort(addr) ==
    /\ pc \in GuestCodePcs /\ tr.pc = "none"
    /\ LET msg == NulStr_read(mem, pages, addr)
       IN  IF ~msg.ok THEN Failed(<<"opa_abort", addr>>, msg.err, <<>>)
           ELSE Failed(<<"opa_abort", addr>>, "opa_abort",
                       to_string_lossy(Val(msg)))
    /\ UNCHANGED <<module, rtv, cxv, gmv, policy, clock, evals, histv>>
    /\ UNCHANGED fnv

\* policy.rs:255-260: opa_println reads the message and logs it
opa_println(addr) ==
    /\ pc \in GuestCodePcs /\ tr.pc = "none"
    /\ Ops < MaxOps
    /\ LET msg == NulStr_read(mem, pages, addr)
       IN  IF ~msg.ok
           THEN Failed(<<"opa_println", addr>>, msg.err, <<>>)
           ELSE /\ calls' = calls + 1
                /\ UNCHANGED <<pc, tr, result, ev, log>>
    /\ UNCHANGED <<module, rtv, cxv, gmv, policy, clock, evals, histv>>
    /\ UNCHANGED fnv

(***************************************************************************)
(* Environment                                                              *)
(***************************************************************************)
\* the guest traps: the export call in flight returns an error
GuestTrap ==
    /\ GuestRunning
    /\ Fail("wasm trap")
    /\ UNCHANGED <<module, rtv, cxv, gmv, policy, clock, evals, histv>>
    /\ UNCHANGED fnv

\* the future returned by evaluate is dropped at an await; a MutexGuard it
\* holds is dropped with it
DropTask ==
    /\ pc \in EvalPcs
    /\ pc' = "idle"
    /\ tr' = NoTr
    /\ locked' = FALSE
    /\ ev' = NoEv
    /\ log' = <<>>
    /\ result' = [Returned("dropped", Err("dropped"), <<>>)
                      EXCEPT !.unfreed = HoldsHeap]
    /\ UNCHANGED <<module, rtv, ctx, gmv, policy, clock, evals, calls,
                   histv>>
    /\ UNCHANGED fnv

\* the wall clock advances
Tick ==
    /\ Ops < MaxOps
    /\ pc \in {"c_eval", "f_opa_eval"} /\ tr.pc = "none"
    /\ clock' = clock + 1
    /\ UNCHANGED <<module, pc, tr, rtv, cxv, gmv, policy, ev, result, log,
                   evals, calls, histv>>
    /\ UNCHANGED fnv

Next ==
    \/ Runtime_new
    \/ new_after_memory
    \/ new_instantiate
    \/ new_after_instantiate
    \/ new_after_builtins
    \/ new_after_builtins_dump
    \/ new_after_entrypoints
    \/ new_after_entrypoints_dump
    \/ \E data \in DataDocs : with_data(data)
    \/ load_json_after_malloc
    \/ load_json_after_parse
    \/ load_json_after_free
    \/ with_data_after_heap_ptr_get
    \/ \E name \in EntrypointNames, input \in InputDocs : evaluate(name, input)
    \/ evaluate_start
    \/ evaluate_after_grow
    \/ evaluate_after_opa_eval
    \/ evaluate_after_heap_ptr_set
    \/ evaluate_after_ctx_new
    \/ evaluate_after_set_data
    \/ evaluate_after_set_input
    \/ evaluate_after_set_entrypoint
    \/ evaluate_after_eval
    \/ evaluate_after_get_result
    \/ evaluate_after_dump
    \/ \E c \in GuestCalls : opa_builtin(c[1], c[2])
    \/ builtin_after_dump
    \/ builtin_lock
    \/ builtin_call
    \/ builtin_after_malloc
    \/ builtin_after_parse
    \/ builtin_after_free
    \/ \E addr \in MsgAddrs : opa_abort(addr)
    \/ \E addr \in MsgAddrs : opa_println(addr)
    \/ GuestTrap
    \/ DropTask
    \/ Tick

Spec == Init /\ [][Next]_vars

(***************************************************************************)
(* Construction alone, over every ABI version pair in the range            *)
(***************************************************************************)
AbiModules ==
    {Mod(<<major, minor>>, AllExports, GoodBuiltins) :
        major \in (0 - MaxVer) .. MaxVer, minor \in (0 - MaxVer) .. MaxVer}

InitAbi ==
    /\ module \in AbiModules
    /\ pc = "start"
    /\ tr = NoTr
    /\ version = NoVersion
    /\ loaded_builtins = Unset
    /\ entrypoints = EmptyMap
    /\ opa_eval_func = FALSE
    /\ ctx = DefaultContext_default
    /\ locked = FALSE
    /\ pages = 0
    /\ mem = <<>>
    /\ heap = GuestHeapBase
    /\ policy = NoPolicy
    /\ ev = NoEv
    /\ clock = 0
    /\ result = NoResult
    /\ log = <<>>
    /\ evals = 0
    /\ calls = 0
    /\ rets = <<>>
    /\ nows = {}
    /\ handed = 0 - 1
    /\ http = NoHttp
    /\ fcall = NoCall

\* the constructor, with what the guest and the host imports can do while
\* one of its exports is in flight; the callbacks made during construction
\* have no arguments, so none is dumped
NextAbi ==
    \/ Runtime_new
    \/ new_after_memory
    \/ new_instantiate
    \/ new_after_instantiate
    \/ new_after_builtins
    \/ new_after_builtins_dump
    \/ new_after_entrypoints
    \/ new_after_entrypoints_dump
    \/ \E c \in GuestCalls : opa_builtin(c[1], c[2])
    \/ builtin_lock
    \/ builtin_call
    \/ builtin_after_malloc
    \/ builtin_after_parse
    \/ builtin_after_free
    \/ \E addr \in MsgAddrs : opa_abort(addr)
    \/ \E addr \in MsgAddrs : opa_println(addr)
    \/ GuestTrap

SpecAbi == InitAbi /\ [][NextAbi]_vars

(***************************************************************************)
(* builtins/impls/http.rs                                                  *)
(***************************************************************************)
MaxRetry == 2

\* the document the response texts below encode
KeyValue == Object({<<"key", String("value")>>})

\* the response texts: a JSON object, the same mapping as block YAML, a
\* plain word, and a text neither format accepts
JsonText == "{\"key\":\"value\"}"
YamlText == "key: value\n"
WordText == "hello"
BadText == "{["
Texts == {JsonText, YamlText, WordText, BadText}

\* serde_json::from_str::<Value> on the response texts
serde_json_from_str(text) ==
    IF text = JsonText THEN Ok(KeyValue) ELSE Err("expected value")

\* serde_yaml::from_str::<Value> on the response texts: YAML accepts the
\* JSON text as a flow mapping and the plain word as a scalar
serde_yaml_from_str(text) ==
    CASE text = JsonText -> Ok(KeyValue)
      [] text = YamlText -> Ok(KeyValue)
      [] text = WordText -> Ok(String("hello"))
      [] OTHER -> Err("did not find expected node content")

\* str::to_uppercase on the methods of the requests
to_uppercase(s) ==
    CASE s = "get" -> "GET"
      [] s = "post" -> "POST"
      [] OTHER -> s

\* convert_opa_req_to_http_req, on the map of the request object
convert_opa_req_to_http_req(opa_req) ==
    LET url == Map_get(opa_req, "url")
        method == Map_get(opa_req, "method")
    IN  IF url = <<>> THEN Err("missing url")
        ELSE IF as_str(url) = <<>> THEN Err("url must be a string")
        ELSE IF method = <<>> THEN Err("missing method")
        ELSE IF as_str(method) = <<>> THEN Err("method must be a string")
        ELSE Ok([method |-> to_uppercase(as_str(method)[1]),
                 uri |-> as_str(url)[1]])

\* the header map of a response whose only header may be content-type
response_headers(response) ==
    {<<"content-type", String(response.content_type[1])>> :
        x \in {y \in {1} : response.content_type # <<>>}}

\* convert_http_resp_to_opa_resp
convert_http_resp_to_opa_resp(response, force_json_decode, force_yaml_decode) ==
    LET opa_resp == {<<"status_code", Number(response.status)>>,
                     <<"headers", Object(response_headers(response))>>,
                     <<"raw_body", String(response.body)>>}
        content_type == response.content_type
        json == serde_json_from_str(response.body)
        yaml == serde_yaml_from_str(response.body)
    IN  IF force_json_decode \/ content_type = <<"application/json">>
        THEN IF json.ok
             THEN Object(Map_insert(opa_resp, "body", Val(json)))
             ELSE Object(opa_resp)
        ELSE IF \/ force_yaml_decode
                \/ content_type = <<"application/yaml">>
                \/ content_type = <<"application/x-yaml">>
        THEN IF yaml.ok
             THEN Object(Map_insert(opa_resp, "body", Val(yaml)))
             ELSE Object(opa_resp)
        ELSE Object(opa_resp)

\* raise_error in send: true unless the request carries a boolean
raise_error_of(opa_req) ==
    unwrap_or(as_bool(Value_get(opa_req, "raise_error")), TRUE)

send_result_always_raise(raise_error, res) == res

\* the match in send on what internal_send returned
send_result(raise_error, res) ==
    IF res.ok THEN res
    ELSE IF raise_error THEN res
    ELSE Ok(Object({<<"status_code", Number(0)>>,
                    <<"error", Object({<<"message", String(res.err)>>})>>}))

attempts_range_exclusive(max_retry_attempts) == 0 .. (max_retry_attempts - 1)

\* 0..=max_retry_attempts, the range of the loop in internal_send
attempts_range(max_retry_attempts) == 0 .. max_retry_attempts

\* 2_u64.pow
RECURSIVE pow2(_)
pow2(e) == IF e = 0 THEN 1 ELSE 2 * pow2(e - 1)

\* the sleep after failed attempt number attempt, in milliseconds; the
\* product stays far below 2^64 for the attempts MaxRetry allows
backoff_millis(attempt) == 500 * pow2(attempt)

\* the requests: a value that is no object, and objects with each field
\* absent, well typed or of another type
Absent == {<<>>}
RequestFields ==
    [url : Absent \cup {<<String("http://h/")>>, <<Number(1)>>},
     method : Absent \cup {<<String("get")>>},
     max_retry_attempts :
         Absent \cup {<<Number(k)>> : k \in (0 - 1) .. MaxRetry}
                \cup {<<String("1")>>},
     raise_error :
         Absent \cup {<<Bool(TRUE)>>, <<Bool(FALSE)>>, <<String("false")>>},
     force_json_decode : Absent \cup {<<Bool(TRUE)>>},
     force_yaml_decode : Absent \cup {<<Bool(TRUE)>>}]

ObjectOf(f) ==
    Object({<<k, f[k][1]>> : k \in {j \in DOMAIN f : f[j] # <<>>}})

Requests == {String("http://h/")} \cup {ObjectOf(f) : f \in RequestFields}

\* what EvaluationContext::send_http may return
ContentTypes ==
    Absent \cup {<<"application/json">>, <<"application/yaml">>,
                 <<"application/x-yaml">>, <<"text/plain">>}
Responses ==
    [status : {200}, content_type : ContentTypes, body : Texts]
SendHttpResults == {Err("connection refused")} \cup {Ok(r) : r \in Responses}

\* the other variables, which a builtin called on its own leaves alone
machine == <<module, pc, tr, rtv, cxv, gmv, policy, ev, clock, result, log,
             evals, calls, histv>>

\* locals of send and internal_send, with the calls made so far of
\* send_http (sent) and of sleep (slept)
HttpCall(at, opa_req, attempt, http_resp_res, sent, slept, ret) ==
    [pc |-> at, opa_req |-> opa_req, attempt |-> attempt,
     http_resp_res |-> http_resp_res, sent |-> sent, slept |-> slept,
     ret |-> ret]

max_retry_attempts_of(opa_req) ==
    unwrap_or(as_u64(Value_get(opa_req, "max_retry_attempts")), 0)

\* internal_send from the end of its loop, and the match in send
send_returns(h, http_resp_res) ==
    LET force_json_decode ==
            unwrap_or(as_bool(Value_get(h.opa_req, "force_json_decode")),
                      FALSE)
        force_yaml_decode ==
            unwrap_or(as_bool(Value_get(h.opa_req, "force_yaml_decode")),
                      FALSE)
        res == IF http_resp_res.ok
               THEN Ok(convert_http_resp_to_opa_resp(
                           Val(http_resp_res), force_json_decode,
                           force_yaml_decode))
               ELSE http_resp_res
    IN  [h EXCEPT !.pc = "done",
                  !.http_resp_res = http_resp_res,
                  !.ret = send_result(raise_error_of(h.opa_req), res)]

\* the head of the loop in internal_send with the next value of attempt
loop_head(h, attempt, http_resp_res) ==
    IF attempt \in attempts_range(max_retry_attempts_of(h.opa_req))
    THEN [h EXCEPT !.pc = "send_http", !.attempt = attempt,
                   !.http_resp_res = http_resp_res]
    ELSE send_returns(h, http_resp_res)

\* send, up to the first send_http call of internal_send
send(opa_req) ==
    /\ http.pc = "none"
    /\ LET h == HttpCall("send", opa_req, 0, Err("unreachable"), 0, <<>>,
                         Err(""))
           http_req == IF opa_req.t = "object"
                       THEN convert_opa_req_to_http_req(opa_req.m)
                       ELSE Err("request must be a JSON object")
       IN  http' = IF http_req.ok
                   THEN loop_head(h, 0, Err("unreachable"))
                   ELSE [h EXCEPT !.pc = "done",
                                  !.ret = send_result(raise_error_of(opa_req),
                                                      http_req)]
    /\ UNCHANGED <<machine, fcall>>

\* ctx.send_http returns in the loop of internal_send
send_http(res) ==
    /\ http.pc = "send_http"
    /\ LET h == [http EXCEPT !.sent = @ + 1, !.http_resp_res = res]
       IN  http' = IF res.ok THEN send_returns(h, res)
                   ELSE IF max_retry_attempts_of(http.opa_req) > 0
                   THEN [h EXCEPT !.pc = "sleep",
                                  !.slept = Append(@, backoff_millis(
                                                          http.attempt))]
                   ELSE loop_head(h, http.attempt + 1, res)
    /\ UNCHANGED <<machine, fcall>>

\* the sleep of the loop in internal_send is over
sleep ==
    /\ http.pc = "sleep"
    /\ http' = loop_head(http, http.attempt + 1, http.http_resp_res)
    /\ UNCHANGED <<machine, fcall>>

\* the machine of Runtime and Policy, not started
NotStarted ==
    /\ module = Mod(<<1, 2>>, AllExports, GoodBuiltins)
    /\ pc = "start"
    /\ tr = NoTr
    /\ version = NoVersion
    /\ loaded_builtins = Unset
    /\ entrypoints = EmptyMap
    /\ opa_eval_func = FALSE
    /\ ctx = DefaultContext_default
    /\ locked = FALSE
    /\ pages = 0
    /\ mem = <<>>
    /\ heap = GuestHeapBase
    /\ policy = NoPolicy
    /\ ev = NoEv
    /\ clock = 0
    /\ result = NoResult
    /\ log = <<>>
    /\ evals = 0
    /\ calls = 0
    /\ rets = <<>>
    /\ nows = {}
    /\ handed = 0 - 1

InitHttp ==
    /\ NotStarted
    /\ http = NoHttp
    /\ fcall = NoCall

NextHttp ==
    \/ \E opa_req \in Requests : send(opa_req)
    \/ \E res \in SendHttpResults : send_http(res)
    \/ sleep

SpecHttp == InitHttp /\ [][NextHttp]_vars

(***************************************************************************)
(* builtins/traits.rs, builtins/impls/glob.rs                              *)
(***************************************************************************)
MaxLen == 3

\* a String is the sequence of its characters' code points
Quote == 34
Asterisk == 42
Backslash == 92
hello == <<104, 101, 108, 108, 111>>

\* str::to_uppercase on ASCII text
uppercase(foo) ==
    [i \in DOMAIN foo |->
        IF foo[i] \in 97 .. 122 THEN foo[i] - 32 ELSE foo[i]]

\* serde_json::to_vec of a String whose characters are printable ASCII:
\* the quotation mark and the reverse solidus are escaped
RECURSIVE format_escaped_str_contents(_)
format_escaped_str_contents(s) ==
    IF s = <<>> THEN <<>>
    ELSE (IF Head(s) \in {Quote, Backslash}
          THEN <<Backslash, Head(s)>> ELSE <<Head(s)>>)
         \o format_escaped_str_contents(Tail(s))

to_vec_String(s) == <<Quote>> \o format_escaped_str_contents(s) \o <<Quote>>

\* the characters of a JSON string up to its closing quotation mark, or an
\* error: serde_json's parse_str on printable ASCII with the escapes \" \\ \/
RECURSIVE parse_str(_)
parse_str(b) ==
    IF b = <<>> THEN Err("EOF while parsing a string")
    ELSE IF Head(b) = Quote
    THEN IF Len(b) = 1 THEN Ok(<<>>) ELSE Err("trailing characters")
    ELSE IF Head(b) = Backslash
    THEN IF Len(b) = 1 THEN Err("EOF while parsing a string")
         ELSE IF b[2] \in {Quote, Backslash, 47}
         THEN LET rest == parse_str(SubSeq(b, 3, Len(b)))
              IN  IF rest.ok THEN Ok(<<b[2]>> \o Val(rest)) ELSE rest
         ELSE Err("invalid escape")
    ELSE LET rest == parse_str(Tail(b))
         IN  IF rest.ok THEN Ok(<<Head(b)>> \o Val(rest)) ELSE rest

\* serde_json::from_slice::<String>
from_slice_String(b) ==
    IF b # <<>> /\ Head(b) = Quote THEN parse_str(Tail(b))
    ELSE Err("invalid type")

quote_meta_is_special_asterisk(c) == c = Asterisk

\* the characters glob::quote_meta matches: * ? \ [ ] { }
quote_meta_is_special(c) == c \in {Asterisk, 63, Backslash, 91, 93, 123, 125}

\* the second loop of glob::quote_meta
RECURSIVE quote_meta_out(_)
quote_meta_out(pattern) ==
    IF pattern = <<>> THEN <<>>
    ELSE (IF quote_meta_is_special(Head(pattern))
          THEN <<Backslash, Head(pattern)>> ELSE <<Head(pattern)>>)
         \o quote_meta_out(Tail(pattern))

\* glob::quote_meta
quote_meta(pattern) ==
    LET needs_escape ==
            \E i \in DOMAIN pattern : quote_meta_is_special(pattern[i])
    IN  IF ~needs_escape THEN Ok(pattern) ELSE Ok(quote_meta_out(pattern))

\* the functions wrapped here, with the declared types of their parameters:
\* the closure of tests::builtins_call, trace, glob.quote_meta, indexof_n and
\* time.now_ns
WrappedFuncs == {"uppercase", "trace", "glob.quote_meta", "indexof_n",
                 "time.now_ns"}
Params(f) ==
    CASE f = "time.now_ns" -> <<>>
      [] f = "indexof_n" -> <<"String", "String">>
      [] OTHER -> <<"String">>

\* the function applied to its deserialised parameters, and its result
\* serialised by serde_json::to_vec
Func_apply(f, p) ==
    CASE f = "uppercase" -> Ok(to_vec_String(uppercase(p[1])))
      [] f = "trace" -> Err("not implemented")
      [] f = "glob.quote_meta" ->
            LET res == quote_meta(p[1])
            IN  IF res.ok THEN Ok(to_vec_String(Val(res))) ELSE res
      [] f = "indexof_n" -> Err("not implemented")
      [] f = "time.now_ns" -> Ok(i64_to_vec(now_ns(ctx, clock)))

try_into_prefix(args, N) ==
    IF Len(args) >= N THEN <<SubSeq(args, 1, N)>> ELSE <<>>

\* args.try_into().ok() for an array of N elements
try_into(args, N) == IF Len(args) = N THEN <<args>> ELSE <<>>

Ordinal(i) ==
    CASE i = 1 -> "first" [] i = 2 -> "second" [] i = 3 -> "third"
      [] OTHER -> "fourth"

\* BuiltinFunc::call of the wrapped function f: the arity check, each
\* argument deserialised in turn, the function, the result serialised;
\* invoked tells whether the function was called
BuiltinFunc_call(f, args) ==
    LET N == Len(Params(f))
        a == try_into(args, N)
    IN  IF a = <<>>
        THEN [ret |-> Err("invalid arguments"), invoked |-> FALSE]
        ELSE LET p == [i \in 1 .. N |-> from_slice_String(a[1][i])]
                 bad == {i \in 1 .. N : ~p[i].ok}
             IN  IF bad # {}
                 THEN [ret |-> Err("failed to convert "
                                   \o Ordinal(CHOOSE i \in bad :
                                                 \A j \in bad : i <= j)
                                   \o " argument"),
                       invoked |-> FALSE]
                 ELSE [ret |-> Func_apply(f, [i \in 1 .. N |-> Val(p[i])]),
                       invoked |-> TRUE]

\* JSON documents passed as arguments: "hello", "a*b", "\\", "" and four
\* that are no JSON string: 1, "hello without its closing quote, "\x", and
\* "\ that ends in the middle of an escape
ArgDocs ==
    {to_vec_String(hello), to_vec_String(<<97, Asterisk, 98>>),
     to_vec_String(<<Backslash>>), to_vec_String(<<>>),
     <<49>>, <<Quote>> \o hello, <<Quote, Backslash, 120, Quote>>,
     <<Quote, Backslash>>}

ArgSlices ==
    {<<>>} \cup {<<x>> : x \in ArgDocs}
           \cup {<<x, y>> : x \in ArgDocs, y \in ArgDocs}

\* the patterns given to glob.quote_meta: every string of at most MaxLen
\* characters over a, * ? \ [ ] { }
PatternChars == {97, Asterisk, 63, Backslash, 91, 93, 123, 125}
Patterns ==
    UNION {[1 .. n -> PatternChars] : n \in 0 .. MaxLen}

\* a function called on its own: the function, its inputs, what it
\* returned, for a second quote_meta the input of the first, and what an
\* async function holds across an await
FnCall(at, name, args) ==
    [pc |-> at, name |-> name, args |-> args, ret |-> Err(""),
     invoked |-> FALSE, prev |-> <<>>, held |-> <<>>]

\* Builtin::call on a wrapped function
call ==
    /\ fcall.pc = "called" /\ fcall.name \in WrappedFuncs
    /\ LET r == BuiltinFunc_call(fcall.name, fcall.args)
       IN  fcall' = [fcall EXCEPT !.pc = "done", !.ret = r.ret,
                                  !.invoked = r.invoked]
    /\ UNCHANGED <<machine, http>>

\* glob::quote_meta on a pattern
call_quote_meta ==
    /\ fcall.pc = "called" /\ fcall.name = "quote_meta"
    /\ fcall' = [fcall EXCEPT !.pc = "done",
                              !.ret = quote_meta(fcall.args[1])]
    /\ UNCHANGED <<machine, http>>

\* glob::quote_meta on what glob::quote_meta returned
call_quote_meta_again ==
    /\ fcall.pc = "done" /\ fcall.name = "quote_meta"
    /\ fcall.prev = <<>>
    /\ fcall' = [fcall EXCEPT !.args = <<Val(fcall.ret)>>,
                              !.ret = quote_meta(Val(fcall.ret)),
                              !.prev = <<fcall.args[1]>>]
    /\ UNCHANGED <<machine, http>>

(***************************************************************************)
(* builtins/impls/json.rs, builtins/impls/object.rs                        *)
(***************************************************************************)
MaxPatchOps == 2

\* an operation of a json_patch::Patch on an object member; path is the
\* sequence of the reference tokens of its JSON pointer
PatchOp(op, path, value) == [op |-> op, path |-> path, value |-> value]

\* one operation of RFC 6902 applied at path below doc
RECURSIVE apply_op(_, _, _)
apply_op(doc, o, path) ==
    IF doc.t # "object" THEN Err("invalid pointer")
    ELSE LET key == Head(path)
             cur == Map_get(doc.m, key)
         IN  IF Len(path) > 1
             THEN IF cur = <<>> THEN Err("invalid pointer")
                  ELSE LET r == apply_op(cur[1], o, Tail(path))
                       IN  IF r.ok
                           THEN Ok(Object(Map_insert(doc.m, key, Val(r))))
                           ELSE r
             ELSE CASE o.op = "add" ->
                           Ok(Object(Map_insert(doc.m, key, o.value)))
                    [] o.op = "remove" ->
                           IF cur = <<>> THEN Err("invalid pointer")
                           ELSE Ok(Object({p \in doc.m : p[1] # key}))
                    [] o.op = "replace" ->
                           IF cur = <<>> THEN Err("invalid pointer")
                           ELSE Ok(Object(Map_insert(doc.m, key, o.value)))
                    [] o.op = "test" ->
                           IF cur = <<o.value>> THEN Ok(doc)
                           ELSE Err("test failed")

\* json_patch::patch: the operations in order, the first error ends it
RECURSIVE json_patch_patch(_, _)
json_patch_patch(doc, p) ==
    IF p = <<>> THEN Ok(doc)
    ELSE LET r == apply_op(doc, Head(p), Head(p).path)
         IN  IF r.ok THEN json_patch_patch(Val(r), Tail(p)) ELSE r

\* json::patch
patch(object, p) ==
    LET r == json_patch_patch(object, p)
    IN  IF ~r.ok THEN Object({}) ELSE Val(r)

\* the objects and the patches given to json.patch
PatchObjects ==
    {Object({}), Object({<<"a", Number(1)>>}),
     Object({<<"a", Number(1)>>, <<"b", Number(2)>>}),
     Object({<<"a", Object({<<"x", Number(1)>>})>>})}
PatchOps ==
    {PatchOp("add", <<"a">>, Number(2)), PatchOp("add", <<"b">>, Number(2)),
     PatchOp("add", <<"a", "x">>, Number(2)),
     PatchOp("remove", <<"a">>, Null), PatchOp("remove", <<"b">>, Null),
     PatchOp("replace", <<"a">>, Number(2)),
     PatchOp("replace", <<"b">>, Number(3)),
     PatchOp("test", <<"a">>, Number(1))}
Patches == UNION {[1 .. n -> PatchOps] : n \in 0 .. MaxPatchOps}

\* a.entry(k).or_insert(Value::Null), then what is at k
entry_or_insert_null(m, k) == unwrap_or(Map_get(m, k), Null)

\* object::merge_value: the value a holds after merge_value(a, b)
RECURSIVE merge_value(_, _)
merge_value(a, b) ==
    CASE a.t = "object" /\ b.t = "object" ->
            Object({p \in a.m : \A q \in b.m : q[1] # p[1]}
                   \cup {<<q[1],
                           merge_value(entry_or_insert_null(a.m, q[1]), q[2])>> :
                            q \in b.m})
      [] a.t = "array" /\ b.t = "array" -> Array(b.a)
      [] a.t = "array" /\ b.t = "object" -> Array(<<b>>)
      [] b.t = "null" /\ ~(a.t = "object" /\ b.t = "object")
                      /\ ~(a.t = "array" /\ b.t = "array")
                      /\ ~(a.t = "array" /\ b.t = "object") -> a
      [] OTHER -> b

\* the loop of object::union_n from the value its result holds (res)
RECURSIVE union_n_from(_, _)
union_n_from(res, objects) ==
    IF objects = <<>> THEN res
    ELSE union_n_from(merge_value(res, Head(objects)), Tail(objects))

\* object::union_n
union_n(objects) == Ok(union_n_from(Object({}), objects))

\* the objects given to object.union_n: a is absent or one of UnionValues,
\* b is absent or 1
UnionValues ==
    {Null, Number(1), Number(2), Array(<<Number(1)>>), Array(<<Number(2)>>),
     Object({}), Object({<<"x", Number(1)>>}), Object({<<"x", Null>>}),
     Object({<<"y", Number(2)>>}), Object({<<"x", Array(<<Number(1)>>)>>}),
     Object({<<"x", Object({})>>})}
UnionObjects ==
    {Object(ma \cup mb) :
        ma \in {{}} \cup {{<<"a", v>>} : v \in UnionValues},
        mb \in {{}, {<<"b", Number(1)>>}}}
UnionArgs == UNION {[1 .. n -> UnionObjects] : n \in 0 .. 2}

\* json::patch on an object and a patch
call_patch ==
    /\ fcall.pc = "called" /\ fcall.name = "json.patch"
    /\ fcall' = [fcall EXCEPT !.pc = "done",
                              !.ret = Ok(patch(fcall.args[1], fcall.args[2]))]
    /\ UNCHANGED <<machine, http>>

\* object::union_n on a vector of values
call_union_n ==
    /\ fcall.pc = "called" /\ fcall.name = "object.union_n"
    /\ fcall' = [fcall EXCEPT !.pc = "done", !.ret = union_n(fcall.args)]
    /\ UNCHANGED <<machine, http>>

(***************************************************************************)
(* loader.rs                                                               *)
(***************************************************************************)
MaxEntries == 3

\* what the stream archive.entries() yields: an entry with its path and
\* bytes, an entry whose path() is an error, or an error of the stream
TarEntry(path, bytes) == [item |-> "entry", path |-> path, bytes |-> bytes]
TarNoPath == [item |-> "nopath", path |-> "", bytes |-> <<>>]
TarError == [item |-> "error", path |-> "", bytes |-> <<>>]

path_is_policy_wasm_no_root(e) ==
    e.item = "entry" /\ e.path \in {"/policy.wasm", "policy.wasm"}

\* the filter of load_bundle: e.path().map(|p| p.as_os_str() ==
\* "/policy.wasm").unwrap_or(false)
path_is_policy_wasm(e) == e.item = "entry" /\ e.path = "/policy.wasm"

\* entries.try_filter(..).try_next(): the first entry the filter accepts,
\* None at the end of the stream, or the first error the stream yields
RECURSIVE find_bundle_entry(_)
find_bundle_entry(entries) ==
    IF entries = <<>> THEN Ok(<<>>)
    ELSE IF Head(entries).item = "error" THEN Err("failed to iterate")
    ELSE IF path_is_policy_wasm(Head(entries)) THEN Ok(<<Head(entries)>>)
    ELSE find_bundle_entry(Tail(entries))

\* the archives: up to MaxEntries items, among them two modules at
\* /policy.wasm, a module at policy.wasm and a data file
TarItems ==
    {TarEntry("/policy.wasm", <<0, 97, 115, 109, 1>>),
     TarEntry("/policy.wasm", <<0, 97, 115, 109, 2>>),
     TarEntry("policy.wasm", <<0, 97, 115, 109, 3>>),
     TarEntry("/data.json", <<123, 125>>), TarNoPath, TarError}
Archives == UNION {[1 .. n -> TarItems] : n \in 0 .. MaxEntries}

\* the files read_bundle is tried on: up to two paths, each holding an
\* archive of at most one item
BundlePaths == {"bundle.tar.gz", "other.tar.gz"}
BundleFiles ==
    UNION {[paths -> UNION {[1 .. n -> TarItems] : n \in 0 .. 1}] :
              paths \in SUBSET BundlePaths}

\* loader.rs:26-27 read_bundle on a path: up to the await of File::open
call_read_bundle ==
    /\ fcall.pc = "called" /\ fcall.name = "read_bundle"
    /\ fcall' = [fcall EXCEPT !.pc = "open"]
    /\ UNCHANGED <<machine, http>>

\* loader.rs:27-29, 38-53: File::open returned; its error is returned, or
\* the file is given to load_bundle, which waits for try_next
read_bundle_after_open ==
    /\ fcall.pc = "open"
    /\ LET path == fcall.args[1]
           files == fcall.args[2]
       IN  IF path \notin DOMAIN files
           THEN fcall' = [fcall EXCEPT
                            !.pc = "done",
                            !.ret = Err("No such file or directory")]
           ELSE fcall' = [fcall EXCEPT !.pc = "find_bundle_entry",
                                       !.held = files[path]]
    /\ UNCHANGED <<machine, http>>

\* loader.rs:34-53 load_bundle on an archive: the decoder, the archive and
\* its stream of entries, up to the await of try_next
call_load_bundle ==
    /\ fcall.pc = "called" /\ fcall.name = "load_bundle"
    /\ fcall' = [fcall EXCEPT !.pc = "find_bundle_entry",
                              !.held = fcall.args[1]]
    /\ UNCHANGED <<machine, http>>

\* loader.rs:53-61: try_next returned; a stream error or a missing entry is
\* returned, or the entry found is read, up to the await of read_to_end
load_bundle_after_try_next ==
    /\ fcall.pc = "find_bundle_entry"
    /\ LET found == find_bundle_entry(fcall.held)
       IN  IF ~found.ok
           THEN fcall' = [fcall EXCEPT !.pc = "done", !.ret = found,
                                       !.held = <<>>]
           ELSE IF Val(found) = <<>>
           THEN fcall' = [fcall EXCEPT
                            !.pc = "done",
                            !.ret = Err("could not find WASM policy in tar archive"),
                            !.held = <<>>]
           ELSE fcall' = [fcall EXCEPT !.pc = "read_module",
                                       !.held = Val(found)]
    /\ UNCHANGED <<machine, http>>

\* loader.rs:61-63: read_to_end returned; the buffer is returned
load_bundle_after_read_to_end ==
    /\ fcall.pc = "read_module"
    /\ fcall' = [fcall EXCEPT !.pc = "done",
                              !.ret = Ok(fcall.held[1].bytes),
                              !.held = <<>>]
    /\ UNCHANGED <<machine, http>>

(***************************************************************************)
(* types.rs called on its own                                               *)
(***************************************************************************)
\* memories of one or two pages whose last bytes of the first page are
\* zero, ASCII or not UTF-8, and the addresses read: negative, first, near
\* the end of the first page, the end of each size and beyond
TailBytes == {0, 65, 255}
TailMemories == [{65533, 65534, 65535} -> TailBytes]
ReadPages == {1, 2}
ReadAddrs == {0 - 1, 0, 65533, 65534, 65535, 65536, 65537, 131072, 131073}

\* Heap handles: small ones, ones that end at or next to a page boundary,
\* and ones whose end is at or beyond i32::MAX
HeapPtrs == {0, 1, 65535, 65536, 131066, i32_MAX - 65536, i32_MAX - 1, i32_MAX}
HeapLens == {0, 1, 7, 65536, i32_MAX - 1, i32_MAX}

\* Heap{ptr, len}.pages() in either build
call_Heap_pages ==
    /\ fcall.pc = "called" /\ fcall.name = "Heap::pages"
    /\ \E build \in Builds :
         fcall' = [fcall EXCEPT
                     !.pc = "done",
                     !.ret = Heap_pages_call([ptr |-> fcall.args[1],
                                              len |-> fcall.args[2]], build)]
    /\ UNCHANGED <<machine, http>>

\* ceil((ptr + len) / 65536) for ptr, len >= 0, computed page by page so
\* that no intermediate value exceeds the sum
CeilPages(ptr, len) ==
    LET rest == (ptr % 65536) + (len % 65536)
    IN  (ptr \div 65536) + (len \div 65536)
        + (IF rest = 0 THEN 0 ELSE IF rest <= 65536 THEN 1 ELSE 2)

\* a length of type usize below 2^32, kept as hi * 2^31 + lo
usize(hi, lo) == [hi |-> hi, lo |-> lo]
\* usize -> i32 by try_into
usize_try_into_i32(n) == IF n.hi = 0 THEN Ok(n.lo) ELSE Err("input too long")

\* how the fast path of evaluate ended, or the call of opa_eval it made
FastOutcome(kind, e, delta, at, heap_ptr) ==
    [kind |-> kind, err |-> e, grow |-> delta, at |-> at,
     heap_ptr |-> heap_ptr]

\* policy.rs:543-573 on an input of n bytes, a saved heap pointer and a
\* memory of current_pages pages: the handle, the growth, which the Store
\* grants or refuses, the bounds check of the write and the heap pointer
\* given to opa_eval
evaluate_input(saved_ptr, n, current_pages, build, granted) ==
    LET len == usize_try_into_i32(n)
        input_heap == [ptr |-> saved_ptr, len |-> Val(len)]
        pgs == Heap_pages_call(input_heap, build)
        delta == grow_delta(current_pages, Val(pgs))
        grown == current_pages + delta
    IN  IF ~len.ok THEN FastOutcome("err", len.err, 0, 0, 0)
        ELSE IF ~pgs.ok THEN FastOutcome("panic", pgs.err, 0, 0, 0)
        ELSE IF delta > 0 /\ ~granted
        THEN FastOutcome("err", "failed to grow memory", delta, 0, 0)
        ELSE IF input_heap.ptr < 0
        THEN FastOutcome("err", "invalid heap pointer", delta, 0, 0)
        ELSE IF CeilPages(input_heap.ptr, input_heap.len) > grown
        THEN FastOutcome("err", "out of bounds write", delta, 0, 0)
        ELSE FastOutcome("opa_eval", "", delta, input_heap.ptr,
                         Heap_end(input_heap))

\* input lengths: the ones of the handles and two that no i32 holds; memory
\* sizes: the initial one, 2 GiB and the 4 GiB a 32-bit guest can reach
InputLens ==
    {usize(0, l) : l \in HeapLens} \cup {usize(1, 0), usize(1, 65536)}
MemoryPages == {InitialPages, 32768, 65536}

\* policy.rs:543-558, the fast path of evaluate in either build up to the
\* await of grow_async; when no page is asked for (the length or the handle
\* is refused, or the memory is large enough) it goes on to line 573
call_evaluate_input ==
    /\ fcall.pc = "called" /\ fcall.name = "evaluate_input"
    /\ \E build \in Builds :
         LET r == evaluate_input(fcall.args[1], fcall.args[2],
                                 fcall.args[3], build, TRUE)
         IN  IF r.grow > 0
             THEN fcall' = [fcall EXCEPT !.pc = "grow_async",
                                         !.held = <<build>>]
             ELSE fcall' = [fcall EXCEPT !.pc = "done", !.ret = r]
    /\ UNCHANGED <<machine, http>>

\* policy.rs:555-573: grow_async returned; the Store refused the pages and
\* evaluate fails, or granted them and the input is written
evaluate_input_after_grow ==
    /\ fcall.pc = "grow_async"
    /\ \E granted \in BOOLEAN :
         fcall' = [fcall EXCEPT
                     !.pc = "done",
                     !.ret = evaluate_input(fcall.args[1], fcall.args[2],
                                            fcall.args[3], fcall.held[1],
                                            granted),
                     !.held = <<>>]
    /\ UNCHANGED <<machine, http>>

\* NulStr(addr).read on a memory
call_NulStr_read ==
    /\ fcall.pc = "called" /\ fcall.name = "NulStr::read"
    /\ fcall' = [fcall EXCEPT !.pc = "done",
                              !.ret = NulStr_read(fcall.args[1],
                                                  fcall.args[2],
                                                  fcall.args[3])]
    /\ UNCHANGED <<machine, http>>

(***************************************************************************)
(* builtins/impls/time.rs called on its own                                *)
(***************************************************************************)
\* time.rs:131 the nanoseconds of a second
NsPerSec == 1000000000

\* `x as u32` of an i64 x with |x| < 2^31, kept as hi * 2^31 + lo so that the
\* value stays a 32-bit integer: a negative x casts to
\* 2^32 + x
as_u32(x) ==
    IF x >= 0 THEN [hi |-> 0, lo |-> x]
    ELSE [hi |-> 1, lo |-> (i32_MAX + x) + 1]
\* v >= k for a u32 v and k < 2^31
u32_ge(v, k) == v.hi = 1 \/ v.lo >= k

\* the zones of the table the model keeps, str::parse::<Tz>
ZoneNames == {"UTC"}
Tz_parse(name) ==
    IF name \in ZoneNames THEN Ok(name) ELSE Err("timezone parse error")

\* Tz::timestamp_opt for UTC: the day and the second of the day by euclidean
\* division by the 86400 seconds of a day, and None when NaiveTime refuses
\* the nanoseconds, which it does from 2 * 10^9 on
timestamp_opt(secs, nsecs) ==
    IF u32_ge(nsecs, 2 * NsPerSec) THEN Err("No such local time")
    ELSE Ok([days |-> secs \div 86400, sod |-> secs % 86400,
             nano |-> nsecs.lo])

\* time.rs:124-141 nanoseconds_to_date
nanoseconds_to_date(ns, time_zone) ==
    LET tz == IF time_zone = <<>> THEN Ok("UTC") ELSE Tz_parse(time_zone[1])
    IN  IF ~tz.ok THEN tz
        ELSE timestamp_opt(i32_div(ns, NsPerSec),
                           as_u32(i32_rem(ns, NsPerSec)))

\* Value::as_i64 and Value::as_str of an Option<&Value>
as_i64(o) == IF o # <<>> /\ o[1].t = "number" THEN <<o[1].n>> ELSE <<>>
as_str_or_default(v) == IF v.t = "string" THEN v.s ELSE ""
Array_get(value, i) ==
    IF value.t = "array" /\ i + 1 <= Len(value.a) THEN <<value.a[i + 1]>>
    ELSE <<>>

\* time.rs:161-176 extract_data_from_value
extract_data_from_value(value) ==
    IF value.t = "array"
    THEN LET first == Array_get(value, 0)
             ns == as_i64(IF first = <<>> THEN <<value>> ELSE first)
             tz == Array_get(value, 1)
         IN  IF ns # <<>> /\ tz # <<>>
             THEN nanoseconds_to_date(ns[1], <<as_str_or_default(tz[1])>>)
             ELSE Err("invalid argument(s)")
    ELSE LET ns == as_i64(<<value>>)
         IN  IF ns # <<>> THEN nanoseconds_to_date(ns[1], <<>>)
             ELSE Err("invalid argument(s)")

\* the civil date of a day counted from 1970-01-01 in the proleptic Gregorian
\* calendar (Datelike::year, month, day)
civil_from_days(days) ==
    LET z == days + 719468
        era == z \div 146097
        doe == z - era * 146097
        yoe == (doe - (doe \div 1460) + (doe \div 36524)
                    - (doe \div 146096)) \div 365
        doy == doe - (365 * yoe + (yoe \div 4) - (yoe \div 100))
        mp == (5 * doy + 2) \div 153
        d == doy - ((153 * mp + 2) \div 5) + 1
        m == IF mp < 10 THEN mp + 3 ELSE mp - 9
        y == yoe + era * 400 + (IF m <= 2 THEN 1 ELSE 0)
    IN  <<y, m, d>>
DayNames ==
    <<"Monday", "Tuesday", "Wednesday", "Thursday", "Friday", "Saturday",
      "Sunday">>
\* 1970-01-01 was a Thursday
weekday_of(days) == DayNames[((days + 3) % 7) + 1]
clock_of(sod) == <<sod \div 3600, (sod % 3600) \div 60, sod % 60>>

\* time.rs:64-76 clock, date and time.rs:109-122 weekday
TimeFuncs == {"time.clock", "time.date", "time.weekday"}
time_func(f, x) ==
    LET date_time == extract_data_from_value(x)
    IN  IF ~date_time.ok THEN date_time
        ELSE CASE f = "time.clock" -> Ok(clock_of(Val(date_time).sod))
               [] f = "time.date" -> Ok(civil_from_days(Val(date_time).days))
               [] f = "time.weekday" -> Ok(weekday_of(Val(date_time).days))

\* the timestamps given: around the epoch, whole and broken seconds on
\* both sides of it
TimeNs ==
    {0 - 2000000000, 0 - 1999999999, 0 - 1000000001, 0 - 1000000000,
     0 - 999999999, 0 - 1, 0, 1, 999999999, 1000000000, 1500000000, i32_MAX}
TimeZones == {"UTC", "Mars/Olympus"}
TimeArgs ==
    {Number(n) : n \in TimeNs}
        \cup {Array(<<Number(n), String(z)>>) : n \in TimeNs, z \in TimeZones}
        \cup {Array(<<Number(n)>>) : n \in TimeNs}
        \cup {Array(<<Number(0), Null>>), Array(<<String("0"), String("UTC")>>),
              Array(<<>>), String("0"), Null}

\* time.clock, time.date or time.weekday on a value
call_time ==
    /\ fcall.pc = "called" /\ fcall.name \in TimeFuncs
    /\ fcall' = [fcall EXCEPT !.pc = "done",
                              !.ret = time_func(fcall.name, fcall.args[1])]
    /\ UNCHANGED <<machine, http>>

InitFn ==
    /\ NotStarted
    /\ http = NoHttp
    /\ \/ fcall \in {FnCall("called", f, args) :
                        f \in WrappedFuncs, args \in ArgSlices}
       \/ fcall \in {FnCall("called", "quote_meta", <<s>>) : s \in Patterns}
       \/ fcall \in {FnCall("called", "json.patch", <<o, p>>) :
                        o \in PatchObjects, p \in Patches}
       \/ fcall \in {FnCall("called", "object.union_n", objects) :
                        objects \in UnionArgs}
       \/ fcall \in {FnCall("called", "load_bundle", <<entries>>) :
                        entries \in Archives}
       \/ fcall \in {FnCall("called", "read_bundle", <<path, files>>) :
                        path \in BundlePaths, files \in BundleFiles}
       \/ fcall \in {FnCall("called", "Heap::pages", <<ptr, len>>) :
                        ptr \in HeapPtrs, len \in HeapLens}
       \/ fcall \in {FnCall("called", "NulStr::read", <<m, pg, addr>>) :
                        m \in TailMemories, pg \in ReadPages,
                        addr \in ReadAddrs}
       \/ fcall \in {FnCall("called", f, <<x>>) :
                        f \in TimeFuncs, x \in TimeArgs}
       \/ fcall \in {FnCall("called", "evaluate_input", <<ptr, n, pg>>) :
                        ptr \in HeapPtrs, n \in InputLens,
                        pg \in MemoryPages}

NextFn ==
    \/ call
    \/ call_quote_meta
    \/ call_quote_meta_again
    \/ call_patch
    \/ call_union_n
    \/ call_load_bundle
    \/ load_bundle_after_try_next
    \/ load_bundle_after_read_to_end
    \/ call_read_bundle
    \/ read_bundle_after_open
    \/ call_NulStr_read
    \/ call_Heap_pages
    \/ call_time
    \/ call_evaluate_input
    \/ evaluate_input_after_grow

SpecFn == InitFn /\ [][NextFn]_vars

(***************************************************************************)
(* Properties                                                               *)
(***************************************************************************)
\* a Runtime was returned by the constructor
Constructed == pc \in {"runtime", "idle"} \cup WithDataPcs \cup EvalPcs

\* the names of the events in a log
Events(l) == {l[i][1] : i \in DOMAIN l}

\* the input of the evaluation in progress has been placed (fast path) or
\* its loading has begun (classic path)
InputPlaced == pc \in (ClassicPcs \ {"c_heap_ptr_set"}) \cup FastPcs

\* C1 as stated: on either path, at the start of the second evaluation the
\* guest heap pointer equals Policy.heap_ptr and opa_heap_ptr_set was called
C1_AsStated ==
    (evals = 2 /\ InputPlaced) =>
        /\ ev.start_heap = policy.heap_ptr
        /\ "opa_heap_ptr_set" \in Events(log)

\* C1 (amended): on the classic path every evaluation begins by calling
\* opa_heap_ptr_set(Policy.heap_ptr), so the guest heap pointer equals the
\* saved pointer when the input is loaded; on the fast path opa_heap_ptr_set
\* is never called: the input is written at Policy.heap_ptr and opa_eval is
\* given the address after the input as its heap pointer
C1_HeapRestart ==
    InputPlaced =>
        IF opa_eval_func
        THEN /\ "opa_heap_ptr_set" \notin Events(log)
             /\ ev.ptr = policy.heap_ptr
             /\ log[Len(log)] = <<"opa_eval", 0, ev.entrypoint, policy.data,
                                  policy.heap_ptr, ev.len,
                                  policy.heap_ptr + ev.len, 0>>
        ELSE /\ log[2] = <<"opa_heap_ptr_set", policy.heap_ptr>>
             /\ ev.start_heap = policy.heap_ptr

\* the second evaluation on the classic path, after a first one that was
\* dropped and left the heap pointer elsewhere, has rewound the heap
C1_Witness ==
    /\ evals = 2 /\ pc = "c_malloc" /\ ~opa_eval_func
    /\ ev.after = "dropped" /\ ev.moved
    /\ heap = policy.heap_ptr

\* C2: evaluate with a name that is not in the entrypoints map returns an
\* error without notifying the context and without calling a guest export:
\* the context, the memory, the heap pointer and the mutex are unchanged
C2_UnknownEntrypoint ==
    [][(pc = "idle" /\ ev'.name # "" /\ ev'.name \notin DOMAIN entrypoints)
        => /\ pc' = "idle"
           /\ result'.kind = "evaluate" /\ ~result'.ok
           /\ result'.err = "could not find entrypoint"
           /\ log' = log
           /\ UNCHANGED <<ctx, locked, pages, mem, heap, evals, rets, nows>>]_vars

\* evaluate returned the lookup error while the cache of an earlier
\* evaluation was still in the context
C2_Witness ==
    /\ pc = "idle" /\ result.kind = "evaluate"
    /\ result.err = "could not find entrypoint"
    /\ ev.name = "nope"
    /\ DOMAIN ctx.cache # {}

\* the pairs C3 names: (1,0), (1,1), (1,2) and (1,n) with n >= 2
SupportedAbi(major, minor) == major = 1 /\ minor >= 0

\* the positions of construction past the version check
CheckedPcs == {"builtins", "builtins_dump", "entrypoints", "entrypoints_dump"}

\* the version check accepts exactly the supported pairs and gives the error
\* for every other; a version is held only for a supported pair, and is the
\* variant of its minor; nothing of construction past the check, and no
\* Runtime, exists for an unsupported pair; the fast path is reported and
\* bound exactly for minor >= 2
C3_Validated ==
    LET major == module.abi[1]
        minor == module.abi[2]
        v == AbiVersion_new(major, minor)
    IN  /\ v.ok <=> SupportedAbi(major, minor)
        /\ ~v.ok => v.err = "unsupported ABI version"
        /\ (pc \in CheckedPcs \cup {"runtime"}) =>
              (version # NoVersion /\ SupportedAbi(major, minor))
        /\ version # NoVersion =>
              /\ SupportedAbi(major, minor)
              /\ version = Val(v)
              /\ version.n = minor
              /\ version.tag = (CASE minor = 0 -> "V1_0"
                                  [] minor = 1 -> "V1_1"
                                  [] minor = 2 -> "V1_2"
                                  [] OTHER -> "V1_2Plus")
              /\ has_eval_fastpath(version) <=> minor >= 2
        /\ (~result.ok /\ result.err = "unsupported ABI version") =>
              (pc = "failed" /\ ~SupportedAbi(major, minor)
               /\ version = NoVersion)
        /\ pc = "runtime" => (opa_eval_func <=> minor >= 2)

\* the step taken when instantiate_async has returned: for a supported pair
\* construction goes on to builtins() or fails for another reason; for any
\* other pair it fails there, with the error of the version check unless
\* the guest trapped or aborted first
C3_CheckStep ==
    (pc = "instantiate" /\ pc' # pc) =>
        IF SupportedAbi(module.abi[1], module.abi[2])
        THEN \/ pc' = "builtins" /\ version' # NoVersion
             \/ /\ pc' \in {"failed", "panicked"}
                /\ result'.err # "unsupported ABI version"
        ELSE /\ pc' \in {"failed", "panicked"}
             /\ version' = NoVersion
             /\ (result'.by = <<>> /\ result'.kind = "new"
                 /\ result'.err # "wasm trap") =>
                   result'.err = "unsupported ABI version"

\* C3: ABI version validation accepts exactly (1,0), (1,1), (1,2) and (1,n)
\* with n >= 2 and rejects every other pair with an error, so that
\* construction fails; the fast path is reported available exactly for
\* (1,n) with n >= 2
C3_AbiValidation == []C3_Validated /\ [][C3_CheckStep]_vars

\* a Runtime was built from a module of ABI 1.n, n > 2, with the fast path
C3_Witness ==
    /\ pc = "runtime" /\ module.abi[1] = 1 /\ module.abi[2] > 2
    /\ version.tag = "V1_2Plus" /\ opa_eval_func

\* C4: a constructed Runtime holds the opa_eval binding iff its ABI version
\* is 1.2 or later; evaluate is on the fast path iff the binding is present;
\* a module of ABI >= 1.2 without the opa_eval export is never constructed
C4_FastPathBinding ==
    /\ Constructed => (opa_eval_func <=> has_eval_fastpath(version))
    /\ pc \in FastPcs \cup GrowPcs => opa_eval_func
    /\ pc \in ClassicPcs => ~opa_eval_func
    /\ (module.abi[1] = 1 /\ module.abi[2] >= 2
            /\ "opa_eval" \notin module.exports) => ~Constructed

\* construction of the ABI 1.2 module without opa_eval failed at the binding
C4_Witness ==
    /\ pc = "failed" /\ module.abi = <<1, 2>>
    /\ "opa_eval" \notin module.exports
    /\ result.err = "could not find export"
    /\ version.tag = "V1_2" /\ loaded_builtins.set

\* every entry of the per-evaluation cache was returned by rand.intn in
\* the evaluation in progress
CacheIsOfThisEvaluation ==
    \A key \in DOMAIN ctx.cache :
        \E i \in DOMAIN rets :
            /\ key = rand_cache_key(rets[i][1], rets[i][2])
            /\ ctx.cache[key] = rets[i][3]

\* C5: within one evaluation two calls rand.intn(k, n) with the same (k, n)
\* and n > 0 return the same integer, whatever calls come between them, and
\* once an evaluation has started the cache holds nothing memoised by an
\* earlier one
C5_RandMemo ==
    /\ \A i, j \in DOMAIN rets :
          (rets[i][1] = rets[j][1] /\ rets[i][2] = rets[j][2]
              /\ rets[i][2] > 0) => rets[i][3] = rets[j][3]
    /\ pc \in StartedPcs => CacheIsOfThisEvaluation

\* rand.intn("a", n), rand.intn("b", n), rand.intn("a", n) in one
\* evaluation: the third call repeats the first although the call between
\* them drew another value
C5_Witness ==
    /\ pc \in ClassicPcs \cup FastPcs
    /\ Len(rets) = 3
    /\ rets[1][1] = "a" /\ rets[2][1] = "b" /\ rets[3][1] = "a"
    /\ rets[1][2] = MaxN /\ rets[2][2] = MaxN /\ rets[3][2] = MaxN
    /\ rets[1][3] # rets[2][3]
    /\ rets[3][3] = rets[1][3]

\* C6 as stated: within one evaluation every call of time.now_ns returns
\* the same value
C6_SameNowNs == pc \in EvalPcs => Cardinality(nows) <= 1

\* C7: with the registry published, a callback whose builtin_id is not in
\* it never gets past the lookup, and the step in which the trampoline
\* returns for it returns the "unknown builtin id" error to the guest (the
\* export in flight fails) without a panic, without an argument dumped,
\* with the context not locked and untouched, and with nothing allocated
\* or written in the guest
C7_UnknownBuiltin ==
    /\ [](tr.pc # "none" => tr.id \in DOMAIN loaded_builtins.builtins)
    /\ [][(/\ result' # result
           /\ Len(result'.by) = 2
           /\ result'.by[1] = "opa_builtin"
           /\ result'.by[2] \notin DOMAIN loaded_builtins.builtins)
          => /\ ~result'.ok /\ result'.err = "unknown builtin id"
             /\ pc' \in {"idle", "failed"}
             /\ tr = NoTr /\ tr' = NoTr
             /\ ~locked
             /\ UNCHANGED <<ctx, locked, pages, mem, heap, calls>>]_vars

\* an evaluation failed because the guest called back with the unknown id
C7_Witness ==
    /\ pc = "idle" /\ result.kind = "evaluate"
    /\ result.by = <<"opa_builtin", UnknownId>>
    /\ result.err = "unknown builtin id"
    /\ UnknownId \notin DOMAIN loaded_builtins.builtins
    /\ loaded_builtins.set

\* C8: when the builtins() map of the module holds a name resolve does not
\* know, no Runtime is ever returned and the registry is never published
C8_UnresolvedBuiltin ==
    (\E k \in DOMAIN module.builtins : ~resolve(k).ok) =>
        /\ ~Constructed
        /\ pc \notin {"entrypoints", "entrypoints_dump"}
        /\ ~loaded_builtins.set

\* construction failed on the module that lists regex.match
C8_Witness ==
    /\ pc = "failed" /\ result.kind = "new"
    /\ "regex.match" \in DOMAIN module.builtins
    /\ result.err = "unknown builtin"
    /\ ~loaded_builtins.set

\* C9: after an evaluate that failed with a guest trap (opa_abort or a
\* failing builtin) the context mutex is free, so the next evaluate is not
\* blocked at evaluation_start; that evaluate runs with a cache holding
\* nothing of the failed evaluation, and its input is placed at the saved
\* heap pointer (classic: the heap pointer is back at Policy.heap_ptr)
C9_UsableAfterTrap ==
    /\ (pc = "idle" /\ Outcome(result) = "trap") => (~locked /\ tr = NoTr)
    /\ (pc = "ev_lock" /\ ev.after = "trap") => (~locked /\ tr = NoTr)
    /\ (pc \in StartedPcs /\ ev.after = "trap") =>
          /\ CacheIsOfThisEvaluation
          /\ InputPlaced =>
                IF opa_eval_func THEN ev.ptr = policy.heap_ptr
                ELSE ev.start_heap = policy.heap_ptr

\* the evaluate after one that a failing builtin or opa_abort trapped, with
\* the heap pointer left elsewhere, has passed evaluation_start and
\* rewound the heap
C9_Witness ==
    /\ pc = "c_malloc" /\ ev.after = "trap" /\ ev.moved
    /\ ~locked /\ DOMAIN ctx.cache = {}
    /\ heap = policy.heap_ptr

\* an operation returned because the guest called opa_abort
AbortReturned == Len(result.by) = 2 /\ result.by[1] = "opa_abort"

\* C10 as stated: the error returned for opa_abort(addr) carries exactly
\* the NUL-terminated message the guest stored at addr
C10_AsStated ==
    (AbortReturned /\ NulStr_read(mem, pages, result.by[2]).ok) =>
        /\ ~result.ok
        /\ result.msg = Val(NulStr_read(mem, pages, result.by[2]))

\* C10 (amended): opa_abort(addr) never returns normally: the export in
\* flight fails.  When the message at addr can be read, the error text is
\* its lossy UTF-8 decoding (every byte that is not valid UTF-8 replaced by
\* U+FFFD; the model's invalid bytes are lone bytes >= 128); when it cannot
\* (negative or out-of-bounds address, no NUL before the end of memory) the
\* error is the read error
C10_Abort ==
    AbortReturned =>
        LET m == NulStr_read(mem, pages, result.by[2])
        IN  /\ ~result.ok
            /\ pc \in {"idle", "failed"} /\ tr = NoTr
            /\ IF m.ok
               THEN /\ result.err = "opa_abort"
                    /\ Len(result.msg) = Len(Val(m))
                    /\ \A i \in DOMAIN result.msg :
                          result.msg[i] = IF Val(m)[i] < 128 THEN Val(m)[i]
                                          ELSE REPLACEMENT_CHARACTER
               ELSE /\ result.err = m.err
                    /\ result.msg = <<>>

\* an evaluation failed with the decoded text of a message that is not
\* valid UTF-8
C10_Witness ==
    /\ pc = "idle" /\ result.kind = "evaluate"
    /\ result.by = <<"opa_abort", BadUtf8Addr>>
    /\ result.msg = <<REPLACEMENT_CHARACTER, 33>>

\* C11 as stated: on every path through with_data, evaluate and the builtin
\* trampoline the Heap obtained from opa_malloc is passed to opa_free before
\* it is dropped: no operation returns having dropped a Heap unfreed
C11_EveryHeapFreed == ~result.unfreed

\* the http.send call converted its request and entered the retry loop
RequestConverted ==
    /\ http.pc # "none"
    /\ http.opa_req.t = "object"
    /\ convert_opa_req_to_http_req(http.opa_req.m).ok

\* the error internal_send returned to send, when it returned one
InternalError ==
    IF RequestConverted
    THEN http.http_resp_res.err
    ELSE IF http.opa_req.t = "object"
    THEN convert_opa_req_to_http_req(http.opa_req.m).err
    ELSE "request must be a JSON object"

InternalFailed ==
    http.pc = "done" /\ (RequestConverted => ~http.http_resp_res.ok)

\* C12: with max_retry_attempts = k, http.send never makes more than k+1
\* send_http calls, makes exactly k+1 of them when every one fails and
\* exactly one when k = 0, and makes no call after the first that succeeds
C12_Attempts ==
    LET k == max_retry_attempts_of(http.opa_req)
    IN  /\ http.sent <= k + 1
        /\ (http.pc = "done" /\ RequestConverted /\ ~http.http_resp_res.ok)
               => http.sent = k + 1
        /\ (http.pc = "done" /\ RequestConverted /\ k = 0) => http.sent = 1

C12_StopsAtSuccess ==
    (http'.sent # http.sent) =>
        /\ http'.sent = http.sent + 1
        /\ ~(http.sent > 0 /\ http.http_resp_res.ok)
        /\ http'.http_resp_res.ok => http'.pc = "done"

C12_RetryCount == [](C12_Attempts) /\ [][C12_StopsAtSuccess]_vars

\* every one of MaxRetry + 1 attempts failed, each followed by its sleep
C12_Witness ==
    /\ http.pc = "done"
    /\ max_retry_attempts_of(http.opa_req) = MaxRetry
    /\ ~http.http_resp_res.ok
    /\ http.sent = MaxRetry + 1
    /\ Len(http.slept) = MaxRetry + 1

\* C13: when internal_send fails, http.send with raise_error = false returns
\* { status_code: 0, error: { message } } with the message of the error, and
\* with raise_error true or absent it returns that error
C13_RaiseError ==
    InternalFailed =>
        LET raise_error == Value_get(http.opa_req, "raise_error")
        IN  /\ raise_error = <<Bool(FALSE)>> =>
                   http.ret =
                       Ok(Object({<<"status_code", Number(0)>>,
                                  <<"error",
                                    Object({<<"message",
                                              String(InternalError)>>})>>}))
            /\ raise_error \in {<<>>, <<Bool(TRUE)>>} =>
                   http.ret = Err(InternalError)

\* a request with raise_error = false whose attempts all failed, after a
\* retry, was answered with the status_code 0 object
C13_Witness ==
    /\ http.pc = "done"
    /\ Value_get(http.opa_req, "raise_error") = <<Bool(FALSE)>>
    /\ http.sent >= 2
    /\ ~http.http_resp_res.ok
    /\ http.ret.ok
    /\ Value_get(Val(http.ret), "status_code") = <<Number(0)>>

\* C14 as stated: raw_body is the response text, and body is the decoded
\* document whenever the text parses as JSON and the content type is JSON or
\* force_json_decode is set, and whenever the text parses as YAML and the
\* content type is YAML or force_yaml_decode is set
C14_BodyDecoded ==
    (http.pc = "done" /\ RequestConverted /\ http.http_resp_res.ok) =>
        LET response == Val(http.http_resp_res)
            opa_resp == Val(http.ret)
            force_json_decode ==
                Value_get(http.opa_req, "force_json_decode") = <<Bool(TRUE)>>
            force_yaml_decode ==
                Value_get(http.opa_req, "force_yaml_decode") = <<Bool(TRUE)>>
            json == serde_json_from_str(response.body)
            yaml == serde_yaml_from_str(response.body)
        IN  /\ Value_get(opa_resp, "raw_body") = <<String(response.body)>>
            /\ ( /\ json.ok
                 /\ \/ force_json_decode
                    \/ response.content_type = <<"application/json">> )
                   => Value_get(opa_resp, "body") = json.val
            /\ ( /\ yaml.ok
                 /\ \/ force_yaml_decode
                    \/ response.content_type \in {<<"application/yaml">>,
                                                  <<"application/x-yaml">>} )
                   => Value_get(opa_resp, "body") = yaml.val

\* C15: during an evaluation the trampoline is in progress only inside eval
\* or opa_eval, and while it is, the enclosing call stays where it is: the
\* task issues no other top-level export call, the trampoline has one export
\* call in flight at a time, and the enclosing call resumes only after the
\* trampoline is over
C15_Nested ==
    (pc \in EvalPcs /\ tr.pc # "none") => pc \in {"c_eval", "f_opa_eval"}

C15_Suspended ==
    (tr.pc # "none") =>
        \/ pc' = pc /\ tr' # tr
        \/ tr' = NoTr /\ pc' \in {"idle", "failed", "panicked"}
        \/ UNCHANGED vars

C15_Sequential == [](C15_Nested) /\ [][C15_Suspended]_vars

\* the trampoline has its second opa_json_dump call in flight inside eval
C15_Witness ==
    /\ pc \in {"c_eval", "f_opa_eval"}
    /\ tr.pc = "dump"
    /\ tr.i = 2

\* C16: a wrapped builtin of arity N given N arguments that deserialise
\* returns what the function returned, serialised when it is Ok and as the
\* error when it is Err; given another number of arguments, or an argument
\* that does not deserialise, it returns an error and the function is not
\* invoked
C16_Wrapper ==
    (fcall.pc = "done" /\ fcall.name \in WrappedFuncs) =>
        LET N == Len(Params(fcall.name))
            args == fcall.args
            p == [i \in DOMAIN args |-> from_slice_String(args[i])]
        IN  IF Len(args) # N \/ \E i \in DOMAIN args : ~p[i].ok
            THEN ~fcall.ret.ok /\ ~fcall.invoked
            ELSE /\ fcall.invoked
                 /\ fcall.ret = Func_apply(fcall.name,
                                           [i \in DOMAIN args |-> Val(p[i])])
                 /\ fcall.name = "uppercase" =>
                        fcall.ret = Ok(to_vec_String(uppercase(Val(p[1]))))
                 /\ fcall.name \in {"trace", "indexof_n"} =>
                        fcall.ret = Err("not implemented")

\* the call of tests::builtins_call: uppercase on "hello" returned "HELLO"
C16_Witness ==
    /\ fcall.pc = "done"
    /\ fcall.name = "uppercase"
    /\ fcall.args = <<to_vec_String(hello)>>
    /\ fcall.invoked
    /\ fcall.ret = Ok(<<34, 72, 69, 76, 76, 79, 34>>)

\* C17 as stated: json.patch returns the patched object when every
\* operation succeeds and the original object when one fails
C17_AsStated ==
    (fcall.pc = "done" /\ fcall.name = "json.patch") =>
        LET r == json_patch_patch(fcall.args[1], fcall.args[2])
        IN  fcall.ret = Ok(IF r.ok THEN Val(r) ELSE fcall.args[1])

\* what json.patch does: it returns the patched object when every operation
\* succeeds and the empty object when one fails, never a partly patched one
C17_PatchOrEmpty ==
    (fcall.pc = "done" /\ fcall.name = "json.patch") =>
        LET r == json_patch_patch(fcall.args[1], fcall.args[2])
        IN  fcall.ret = Ok(IF r.ok THEN Val(r) ELSE Object({}))

\* a patch whose first operation applies and whose second fails, on an
\* object that is not empty
C17_Witness ==
    /\ fcall.pc = "done"
    /\ fcall.name = "json.patch"
    /\ Len(fcall.args[2]) = 2
    /\ apply_op(fcall.args[1], fcall.args[2][1], fcall.args[2][1].path).ok
    /\ ~json_patch_patch(fcall.args[1], fcall.args[2]).ok
    /\ fcall.args[1] # Object({})
    /\ fcall.ret = Ok(Object({}))

\* the union of two objects by the rules of C18
RECURSIVE StatedUnion(_, _)
StatedUnion(a, b) ==
    Object({p \in a.m : \A q \in b.m : q[1] # p[1]}
           \cup {q \in b.m : \A p \in a.m : p[1] # q[1]}
           \cup {<<p[1],
                   IF p[2].t = "object" /\ q[2].t = "object"
                   THEN StatedUnion(p[2], q[2])
                   ELSE IF q[2].t = "null" THEN p[2] ELSE q[2]>> :
                    <<p, q>> \in {x \in a.m \X b.m : x[1][1] = x[2][1]}})

\* C18 as stated: object.union_n([a, b]) keeps the keys only in a, adds the
\* keys only in b, merges two objects at one key by the same rules, and
\* otherwise takes b's value unless it is null
C18_UnionRules ==
    (fcall.pc = "done" /\ fcall.name = "object.union_n"
                       /\ Len(fcall.args) = 2) =>
        fcall.ret = Ok(StatedUnion(fcall.args[1], fcall.args[2]))

\* the characters C19 names: * ? \ [ ] { }
GlobSpecials == {42, 63, 92, 91, 93, 123, 125}

NumSpecial(s) == Cardinality({i \in DOMAIN s : s[i] \in GlobSpecials})

\* out is s with exactly k backslashes inserted before each special
\* character and nothing else changed
RECURSIVE Escaped(_, _, _)
Escaped(out, s, k) ==
    IF s = <<>> THEN out = <<>>
    ELSE IF Head(s) \in GlobSpecials
    THEN /\ Len(out) >= k + 1
         /\ \A i \in 1 .. k : out[i] = 92
         /\ out[k + 1] = Head(s)
         /\ Escaped(SubSeq(out, k + 2, Len(out)), Tail(s), k)
    ELSE /\ Len(out) >= 1
         /\ out[1] = Head(s)
         /\ Escaped(Tail(out), Tail(s), k)

\* one escape taken off: a backslash and the character after it give that
\* character, every other character stays
RECURSIVE Unescape(_)
Unescape(t) ==
    IF t = <<>> THEN <<>>
    ELSE IF Head(t) = 92 /\ Len(t) >= 2
    THEN <<t[2]>> \o Unescape(SubSeq(t, 3, Len(t)))
    ELSE <<Head(t)>> \o Unescape(Tail(t))

\* out escapes each special character of s twice and no more: it is s
\* escaped once, escaped once again, each time with exactly one backslash
\* before each special character and nothing else changed; taking one
\* escape off gives the once escaped string, taking two off gives s, and
\* the second escape adds no more than one backslash per special character
\* of the string it is given
EscapedTwice(out, mid, s) ==
    /\ Escaped(mid, s, 1)
    /\ Escaped(out, mid, 1)
    /\ Unescape(out) = mid
    /\ Unescape(Unescape(out)) = s
    /\ Len(out) = Len(mid) + NumSpecial(mid)

\* C19: glob.quote_meta(s) is s with one backslash inserted before each of
\* * ? \ [ ] { } and nothing else changed, of length len(s) plus the number
\* of those characters, and s itself when it has none; hence
\* quote_meta(quote_meta(s)) escapes each special character of s twice and
\* no more
C19_QuoteMeta ==
    (fcall.pc = "done" /\ fcall.name = "quote_meta") =>
        /\ fcall.ret.ok
        /\ fcall.prev = <<>> =>
               LET s == fcall.args[1]
               IN  /\ Escaped(Val(fcall.ret), s, 1)
                   /\ Len(Val(fcall.ret)) = Len(s) + NumSpecial(s)
                   /\ NumSpecial(s) = 0 => Val(fcall.ret) = s
        /\ fcall.prev # <<>> =>
               EscapedTwice(Val(fcall.ret), fcall.args[1], fcall.prev[1])

\* quote_meta twice on *a gave \\\*a: the asterisk escaped by each
\* application, and the backslash of the first escaped by the second
C19_Witness ==
    /\ fcall.pc = "done"
    /\ fcall.name = "quote_meta"
    /\ fcall.prev = <<<<42, 97>>>>
    /\ Val(fcall.ret) = <<92, 92, 92, 42, 97>>

\* the registered rand.intn is about to run on a string and an integer
IntnCalled ==
    /\ tr.pc = "call"
    /\ tr.name = "rand.intn"
    /\ Len(tr.args) = 2
    /\ tr.args[1].t = "string"
    /\ tr.args[2].t = "number"

\* C20: rand.intn returns 0 for n = 0 and an error for n < 0, in both cases
\* without a call of cache_get or cache_set and with the cache as it was,
\* and for n > 0 it returns an integer v with 0 <= v < n
C20_IntnStep ==
    (IntnCalled /\ (tr'.pc = "malloc" \/ result'.kind # "dropped")) =>
        LET n == tr.args[2].n
            Returned0n(v) ==
                /\ tr'.pc = "malloc"
                /\ tr'.json = as_bytes_with_nul(i64_to_vec(v))
        IN  /\ n = 0 => Returned0n(0) /\ ctx' = ctx
            /\ n < 0 =>
                   /\ tr' = NoTr
                   /\ ~result'.ok
                   /\ result'.err = "rand.intn: n must be a positive integer"
                   /\ ctx' = ctx
            /\ n <= 0 =>
                   \A rnd \in RndRange(tr.name, tr.args) :
                       intn(ctx, tr.args[1].v, n, rnd).cache_ops = <<>>
            /\ n > 0 => \E v \in 0 .. (n - 1) : Returned0n(v)

C20_IntnRange == [][C20_IntnStep]_vars

\* rand.intn returned 0 for n = 0 while the cache held a value
C20_Witness ==
    /\ tr.pc = "malloc"
    /\ tr.name = "rand.intn"
    /\ tr.args[2].n = 0
    /\ tr.json = as_bytes_with_nul(i64_to_vec(0))
    /\ DOMAIN ctx.cache # {}

\* C21 as stated: the wrapped trace called with one JSON string returns
\* true, never an error
C21_TraceTrue ==
    (/\ fcall.pc = "done"
     /\ fcall.name = "trace"
     /\ Len(fcall.args) = 1
     /\ from_slice_String(fcall.args[1]).ok) =>
        fcall.ret = Ok(<<116, 114, 117, 101>>)

ClassicOrder ==
    <<"evaluation_start", "opa_heap_ptr_set", "opa_malloc", "memory.write",
      "opa_json_parse", "opa_free", "opa_eval_ctx_new",
      "opa_eval_ctx_set_data", "opa_eval_ctx_set_input",
      "opa_eval_ctx_set_entrypoint", "eval", "opa_eval_ctx_get_result",
      "opa_json_dump">>

\* the classic positions of evaluate in the order of ClassicOrder
ClassicSteps ==
    <<"c_heap_ptr_set", "c_malloc", "c_parse", "c_free", "c_ctx_new",
      "c_set_data", "c_set_input", "c_set_entrypoint", "c_eval",
      "c_get_result", "c_dump">>

\* the index in ClassicOrder of the export in flight at a classic position
ClassicPos(at) ==
    LET i == CHOOSE k \in DOMAIN ClassicSteps : ClassicSteps[k] = at
    IN  IF i <= 2 THEN i + 1 ELSE i + 2

\* the names of the events of a log, in order
EventNames(l) == [i \in DOMAIN l |-> l[i][1]]

\* the exports called so far by the classic evaluation in progress are
\* exactly the stated sequence up to the export in flight, the rewind is to
\* the saved heap pointer and the data, input and entrypoint are set on the
\* context opa_eval_ctx_new returned
C23_CalledInOrder ==
    pc \in ClassicPcs =>
        /\ EventNames(log) = SubSeq(ClassicOrder, 1, ClassicPos(pc))
        /\ log[2] = <<"opa_heap_ptr_set", policy.heap_ptr>>
        /\ Len(log) >= 8 => log[8] = <<"opa_eval_ctx_set_data", ev.ectx,
                                       policy.data>>
        /\ Len(log) >= 9 => log[9] = <<"opa_eval_ctx_set_input", ev.ectx,
                                       ev.input>>
        /\ Len(log) >= 10 => log[10] = <<"opa_eval_ctx_set_entrypoint",
                                         ev.ectx, ev.entrypoint>>

\* a classic evaluation moves to the next export of the sequence, or it
\* returns: with an error from any position, with the result only from the
\* last one
C23_StepOrStop ==
    (pc \in ClassicPcs /\ pc' # pc) =>
        \/ /\ pc' \in ClassicPcs
           /\ ClassicPos(pc') \in {ClassicPos(pc) + 1, ClassicPos(pc) + 2}
           /\ ClassicPos(pc') = ClassicPos(pc) + 2 => pc = "c_malloc"
        \/ /\ pc' = "idle"
           /\ result'.ok => pc = "c_dump"

\* C23: on the classic path evaluate calls the guest exports in the stated
\* order, the rewind of the heap pointer before the input is loaded, and a
\* failing step ends the sequence
C23_ClassicOrder == []C23_CalledInOrder /\ [][C23_StepOrStop]_vars

\* a classic evaluation has reached the dump of its result
C23_Witness ==
    /\ pc = "c_dump"
    /\ Len(log) = Len(ClassicOrder)
    /\ log[Len(log)] = <<"opa_json_dump", ev.resv>>

\* while opa_eval is in flight: the n bytes of the serialised input lie at
\* the saved heap pointer, the write is the event just before the call, the
\* call is the only opa_eval call of the evaluation and its arguments are
\* (0, entrypoint id, data, saved_ptr, n, saved_ptr + n, 0)
C24_WrittenThenCalled ==
    pc = "f_opa_eval" =>
        LET input == to_vec(ev.doc)
            n == Len(input)
            saved_ptr == policy.heap_ptr
        IN  /\ Len(log) >= 3
            /\ log[Len(log)] = <<"opa_eval", 0, ev.entrypoint, policy.data,
                                 saved_ptr, n, saved_ptr + n, 0>>
            /\ log[Len(log) - 1] = <<"memory.write", saved_ptr, n>>
            /\ \A i \in 1..(Len(log) - 1) : log[i][1] # "opa_eval"
            /\ \A i \in 1..n : ByteAt(mem, saved_ptr + i - 1) = input[i]

\* when opa_eval has returned, evaluate returns what the bytes from the
\* returned address up to the first NUL decode to as JSON, or an error when
\* there is no such string or it is not JSON
C24_ResultRead ==
    (call_async_returned("f_opa_eval") /\ pc' = "idle"
     /\ result'.kind = "evaluate" /\ result'.by = <<>>
     /\ result'.err # "wasm trap") =>
        \E addr \in ResultAddrs(heap) :
            LET str == NulStr_read(mem', pages', addr)
            IN  IF str.ok /\ from_slice(Val(str)).ok
                THEN result'.ok /\ result'.val = from_slice(Val(str)).val
                ELSE ~result'.ok

\* C24: on the fast path evaluate writes the serialised input at the saved
\* heap pointer, then calls opa_eval once with (0, entrypoint id, data,
\* saved_ptr, n, saved_ptr + n, 0) and reads the returned address as a
\* NUL-terminated JSON string
C24_FastPath == []C24_WrittenThenCalled /\ [][C24_ResultRead]_vars

\* a fast-path evaluation has returned the decoded result
C24_Witness ==
    /\ pc = "idle"
    /\ opa_eval_func
    /\ result.kind = "evaluate"
    /\ result.ok
    /\ result.val = <<ResultDoc>>
    /\ NulStr_read(mem, pages, heap - GuestObjSize)
           = Ok(to_vec(ResultDoc))

\* the least number of 64 KiB pages that hold the addresses below addr
PagesUpTo(addr) == (addr + 65535) \div 65536

\* the steps of a fast-path evaluation that place the input: memory.grow is
\* called iff the pages needed for [saved, saved + n) exceed the current
\* ones, for exactly the difference, and awaited with the memory untouched;
\* refused, evaluate fails with the memory as it was; granted, the write
\* that follows is in bounds and the call of opa_eval is reached
C25_GrowStep ==
    LET saved == policy.heap_ptr
        n == Len(to_vec(ev.doc))
        needed == PagesUpTo(saved + n)
        grows == {i \in DOMAIN log' : log'[i][1] = "memory.grow"}
    IN  /\ (pc = "ev_lock" /\ opa_eval_func /\ pc' # pc
            /\ result'.kind # "dropped") =>
              IF needed > pages
              THEN /\ pc' = "f_grow"
                   /\ log' = <<<<"evaluation_start">>,
                               <<"memory.grow", needed - pages>>>>
                   /\ UNCHANGED gmv
              ELSE /\ pc' = "f_opa_eval"
                   /\ grows = {}
                   /\ pages' = pages
                   /\ saved >= 0 /\ saved + n <= pages' * 65536
        /\ (pc = "f_grow" /\ pc' = "idle" /\ result'.kind # "dropped") =>
              /\ ~result'.ok /\ result'.err = "failed to grow memory"
              /\ ~result'.unfreed
              /\ UNCHANGED gmv
        /\ (pc = "f_grow" /\ pc' \notin {pc, "idle"}) =>
              /\ pc' = "f_opa_eval"
              /\ needed > pages
              /\ grows = {2}
              /\ log'[2] = <<"memory.grow", needed - pages>>
              /\ log'[3][1] = "memory.write"
              /\ pages' = needed
              /\ saved >= 0 /\ saved + n <= pages' * 65536

\* the memory of a constructed runtime never loses pages
C25_NeverShrunk == (Constructed /\ Constructed') => pages' >= pages

\* C25: on the fast path memory is grown iff ceil((saved + n) / 65536)
\* exceeds the current page count, by exactly the difference, the input
\* range is in bounds when it is written, and memory is never shrunk
C25_GrowIfNeeded == [][C25_GrowStep /\ C25_NeverShrunk]_vars

\* a fast-path evaluation whose input ends beyond the two initial pages:
\* the memory was grown by one page before the write
C25_Witness ==
    /\ pc = "f_opa_eval"
    /\ log[2] = <<"memory.grow", 1>>
    /\ pages = 3
    /\ Heap_end([ptr |-> policy.heap_ptr, len |-> Len(to_vec(ev.doc))])
           > InitialPages * page_size

\* a fast-path evaluation that found the memory large enough
C25_WitnessNoGrow ==
    /\ pc = "f_opa_eval"
    /\ log[2][1] = "memory.write"

\* while an evaluation runs in the guest, the notification is the first
\* event of the evaluation and the only one of its kind, and every entry
\* of the cache was written by a builtin call of this evaluation
C26_NotifiedOnce ==
    pc \in StartedPcs =>
        /\ log[1] = <<"evaluation_start">>
        /\ \A i \in 2..Len(log) : log[i][1] # "evaluation_start"
        /\ \A key \in DOMAIN ctx.cache :
              \E i \in DOMAIN rets :
                  /\ key = rand_cache_key(rets[i][1], rets[i][2])
                  /\ ctx.cache[key] = rets[i][3]

\* an evaluate call with a known entrypoint first waits for the context,
\* with no export called; the step that notifies the context leaves the
\* cache empty and nothing recorded as written by this evaluation, on
\* either path; no evaluation goes on without that step
C26_NotifyStep ==
    /\ (pc = "idle" /\ pc' \in EvalPcs) => (pc' = "ev_lock" /\ log' = <<>>)
    /\ (pc = "ev_lock" /\ pc' \in StartedPcs) =>
          /\ DOMAIN ctx'.cache = {}
          /\ rets' = <<>>
          /\ log'[1] = <<"evaluation_start">>
          /\ (pc' \in FastPcs \cup GrowPcs) = opa_eval_func
    /\ (pc' \in StartedPcs /\ pc \notin StartedPcs) => pc = "ev_lock"
    /\ (pc \in GrowPcs /\ pc' \in StartedPcs) =>
          (ctx' = ctx /\ rets' = rets /\ log'[1] = <<"evaluation_start">>)

\* C26: every evaluate call with a known entrypoint notifies the
\* evaluation context once, before the ABI branch and before any guest
\* export, so that builtin calls see a cache holding only entries of the
\* same evaluation
C26_ContextNotified == []C26_NotifiedOnce /\ [][C26_NotifyStep]_vars

\* a second evaluation has been notified and the cache holds the one entry
\* a builtin call of that evaluation has stored
C26_Witness ==
    /\ evals = 2
    /\ pc \in {"c_eval", "f_opa_eval"}
    /\ Len(rets) = 1
    /\ Cardinality(DOMAIN ctx.cache) = 1
    /\ ev.after = "other"

\* what the trampoline does for a callback with n arguments, in the order
\* C27 states it
TrampolineOrder(n) ==
    [i \in 1..n |-> "opa_json_dump"]
    \o (IF n > 0 THEN <<"NulStr::read">> ELSE <<>>)
    \o <<"lock", "call", "unlock", "opa_malloc", "memory.write",
         "opa_json_parse", "opa_free">>

\* the index in TrampolineOrder of the last thing a trampoline has done
TrampolinePos(t) ==
    LET n == Len(t.args)
        read == n + (IF n > 0 THEN 1 ELSE 0)
    IN  CASE t.pc = "dump"   -> t.i
          [] t.pc = "lock"   -> read
          [] t.pc = "call"   -> read + 1
          [] t.pc = "malloc" -> read + 4
          [] t.pc = "parse"  -> read + 6
          [] t.pc = "free"   -> read + 7

\* the trampoline in progress has done exactly the stated sequence up to
\* its position: one opa_json_dump per argument in argument order, the
\* reads, the lock, the call of the function registered for the id, then
\* opa_malloc for the result with its NUL, the write of those bytes at the
\* address opa_malloc returned, opa_json_parse and opa_free of that buffer
C27_DoneInOrder ==
    tr.pc # "none" =>
        LET n == Len(tr.args)
            done == TrampolinePos(tr)
            read == n + (IF n > 0 THEN 1 ELSE 0)
        IN  /\ EventNames(tr.log) = SubSeq(TrampolineOrder(n), 1, done)
            /\ \A i \in 1..n : i <= done => tr.log[i] = <<"opa_json_dump", i>>
            /\ done >= read + 2 =>
                  tr.log[read + 2]
                      = <<"call", loaded_builtins.builtins[tr.id]>>
            /\ done >= read + 4 =>
                  tr.log[read + 4] = <<"opa_malloc", Len(tr.json)>>
            /\ done >= read + 6 =>
                  /\ tr.log[read + 5]
                        = <<"memory.write", tr.ptr, Len(tr.json)>>
                  /\ tr.log[read + 6]
                        = <<"opa_json_parse", tr.ptr, Len(tr.json)>>
                  /\ tr.json[Len(tr.json)] = 0
            /\ tr.pc = "parse" =>
                  \A i \in DOMAIN tr.json :
                      ByteAt(mem, tr.ptr + i - 1) = tr.json[i]
            /\ done >= read + 7 => tr.log[read + 7] = <<"opa_free", tr.ptr>>

\* a trampoline goes one position further or the callback fails; when
\* opa_free has returned it hands the guest the handle opa_json_parse
\* returned
C27_Advance ==
    /\ (tr.pc # "none" /\ tr'.pc # "none") =>
          \/ tr' = tr
          \/ /\ tr'.id = tr.id /\ tr'.args = tr.args
             /\ TrampolinePos(tr') > TrampolinePos(tr)
             /\ SubSeq(tr'.log, 1, Len(tr.log)) = tr.log
             /\ tr.pc = "parse" => tr'.data = heap
    /\ (tr.pc # "none" /\ tr'.pc = "none" /\ pc' = pc) =>
          (tr.pc = "free" /\ handed' = tr.data /\ tr.data # tr.ptr)

\* C27: for a callback with a known id the trampoline dumps every
\* argument, reads the dumped strings, takes the context mutex, calls the
\* function, allocates, writes, parses and frees the result buffer, in
\* this order, and returns the handle opa_json_parse produced
C27_Trampoline == []C27_DoneInOrder /\ [][C27_Advance]_vars

\* a callback with two arguments has returned its handle to the guest
C27_Witness ==
    /\ pc \in {"c_eval", "f_opa_eval"}
    /\ tr.pc = "none"
    /\ Len(rets) = 1
    /\ handed >= GuestHeapBase
    /\ handed < heap

\* the context mutex is held exactly while a trampoline is at the call of
\* the registered function: by no trampoline that is still dumping or
\* reading arguments or already writing its result back, and by nobody
\* when no trampoline is in progress
C28_HeldWhileRunning == locked <=> (tr.pc = "call")

\* the mutex changes hands one holder at a time: a trampoline takes it when
\* it is free and every argument has been dumped and read; it is given
\* back when the function has returned, before opa_malloc and the write of
\* the result, or when the call failed or was dropped; the notification of
\* a new evaluation takes it only when it is free and gives it back at once
C28_OneHolder ==
    /\ (~locked /\ locked') =>
          /\ tr.pc = "lock" /\ tr'.pc = "call"
          /\ LET n == Len(tr.args)
             IN  EventNames(tr.log)
                   = SubSeq(TrampolineOrder(n), 1,
                            n + (IF n > 0 THEN 1 ELSE 0))
    /\ (locked /\ ~locked') =>
          /\ tr.pc = "call"
          /\ \/ /\ tr'.pc = "malloc"
                /\ \A i \in DOMAIN tr'.log : tr'.log[i][1] # "memory.write"
             \/ tr' = NoTr /\ ~result'.ok
    /\ (locked /\ locked') => (tr' = tr /\ ctx' = ctx)
    /\ (pc = "ev_lock" /\ pc' \in StartedPcs) =>
          (~locked /\ ~locked')
    /\ ctx' # ctx =>
          \/ locked /\ tr.pc = "call"
          \/ ~locked /\ pc = "ev_lock"
          \/ pc \notin InFlight \cup {"ev_lock"}

\* C28: the evaluation context has at most one holder at a time, a builtin
\* call or the notification of a new evaluation; the mutex is taken after
\* the arguments have been dumped and read, held while the function runs
\* and released, on success and on error, before the result is written back
C28_ContextExclusive == []C28_HeldWhileRunning /\ [][C28_OneHolder]_vars

\* a trampoline has given the mutex back and is about to write its result
C28_Witness ==
    /\ tr.pc = "malloc"
    /\ ~locked
    /\ \E i \in DOMAIN tr.log : /\ tr.log[i] = <<"lock">>
                                 /\ tr.log[i + 2] = <<"unlock">>

\* the imports are wired while the registry is still empty; a runtime that
\* was constructed has its registry, and so has every trampoline that is
\* dispatching
C29_Initialised ==
    /\ (pc = "instantiate" /\ Events(log) # {}) =>
          /\ "linker.func_wrap" \in Events(log)
          /\ ~loaded_builtins.set
    /\ Constructed => loaded_builtins.set
    /\ tr.pc # "none" =>
          /\ loaded_builtins.set
          /\ tr.id \in DOMAIN loaded_builtins.builtins
          /\ tr.name = loaded_builtins.builtins[tr.id]

\* a callback that finds the registry empty panics with nothing
\* dispatched; the registry is filled once, by construction, and is the
\* same ever after
C29_FailFastSetOnce ==
    /\ (pc' = "panicked" /\ pc # "panicked") =>
          /\ ~loaded_builtins.set /\ ~loaded_builtins'.set
          /\ pc \in GuestCodePcs
          /\ result'.err = "builtins where never initialized"
    /\ ~loaded_builtins.set =>
          (tr' = NoTr /\ ctx' = ctx
           /\ (Len(result'.by) = 2 => result'.by[1] # "opa_builtin"))
    /\ pc = "panicked" => UNCHANGED vars
    /\ loaded_builtins.set => loaded_builtins' = loaded_builtins
    /\ loaded_builtins' # loaded_builtins =>
          /\ pc = "builtins_dump"
          /\ loaded_builtins'.set
          /\ Ok(loaded_builtins'.builtins) \in from_map(module.builtins)

\* C29: the trampolines are wired before the registry exists, a call made
\* before the registry is published fails fast without dispatching, every
\* call made after construction finds the registry, and the registry is
\* published at most once and never changes
C29_LateRegistry == []C29_Initialised /\ [][C29_FailFastSetOnce]_vars

\* the guest called a builtin while it was being instantiated, before the
\* registry was published
C29_Witness ==
    /\ pc = "panicked"
    /\ ~loaded_builtins.set
    /\ result.err = "builtins where never initialized"
    /\ "linker.func_wrap" \in Events(log)

\* a callback made after construction is dispatching with the registry
C29_WitnessAfter ==
    /\ Constructed /\ tr.pc = "call" /\ loaded_builtins.set

\* the steps of construction in the order C30 states them
StatedNewOrder ==
    <<"Memory::new", "linker.define", "linker.func_wrap", "instantiate",
      "AbiVersion::from_instance", "builtins", "opa_json_dump",
      "entrypoints", "opa_json_dump", "OnceCell::set">>

\* the steps of construction in the order of policy.rs:231-396
NewOrder ==
    <<"Memory::new", "linker.define", "linker.func_wrap", "instantiate",
      "AbiVersion::from_instance", "builtins", "opa_json_dump",
      "OnceCell::set", "entrypoints", "opa_json_dump">>

\* the number of steps of NewOrder taken when construction is at a position
NewPos(at) ==
    CASE at = "memory_new"       -> 1
      [] at = "linked"           -> 3
      [] at = "instantiate"      -> 4
      [] at = "builtins"         -> 6
      [] at = "builtins_dump"    -> 7
      [] at = "entrypoints"      -> 9
      [] at = "entrypoints_dump" -> 10

\* C30 as stated: the steps of a construction in progress are taken in the
\* stated order, the registry being published only after builtins() and
\* entrypoints() have both been called and decoded
C30_AsStated ==
    pc \in SetupPcs \cup NewPcs =>
        /\ Len(log) <= Len(StatedNewOrder)
        /\ EventNames(log) = SubSeq(StatedNewOrder, 1, Len(log))
        /\ loaded_builtins.set => "entrypoints" \in Events(log)

\* the steps of a construction in progress are those of NewOrder up to its
\* position: the version is validated before builtins(), the first export
\* called, and the registry is published once builtins() is decoded,
\* before entrypoints() is called
C30_OrderInProgress ==
    pc \in SetupPcs \cup NewPcs =>
        /\ EventNames(log) = SubSeq(NewOrder, 1, NewPos(pc))
        /\ IF pc = "memory_new" THEN pages = 0 ELSE pages >= InitialPages
        /\ pc \in SetupPcs => (mem = <<>> /\ tr = NoTr /\ calls = 0)
        /\ (version # NoVersion) <=> (pc \notin SetupPcs \cup {"instantiate"})
        /\ loaded_builtins.set <=> (pc \in {"entrypoints", "entrypoints_dump"})
        /\ loaded_builtins.set =>
              Ok(loaded_builtins.builtins) \in from_map(module.builtins)
        /\ entrypoints = EmptyMap /\ ~opa_eval_func

\* construction goes from one position to the next or fails; the Runtime
\* is returned from the last position only, with the entrypoints decoded
\* and every required export bound
C30_OrderStep ==
    /\ (pc \in SetupPcs \cup NewPcs /\ pc' # pc) =>
          \/ pc' \in SetupPcs \cup NewPcs /\ NewPos(pc') > NewPos(pc)
                /\ \A at \in SetupPcs \cup NewPcs :
                      ~(NewPos(pc) < NewPos(at) /\ NewPos(at) < NewPos(pc'))
          \/ pc' \in {"failed", "panicked"} /\ ~result'.ok
          \/ /\ pc' = "runtime" /\ pc = "entrypoints_dump"
             /\ entrypoints' = module.entrypoints
             /\ RequiredExports \subseteq module.exports
             /\ opa_eval_func' =>
                   (has_eval_fastpath(version) /\ "opa_eval" \in module.exports)
    /\ (pc' \in SetupPcs \cup NewPcs /\ pc \notin SetupPcs \cup NewPcs) =>
          (pc = "start" /\ pc' = "memory_new")
    /\ (pc = "memory_new" /\ pc' = "failed") =>
          (result'.err = "failed to create memory" /\ UNCHANGED gmv)

\* C30 as the code has it: construction creates the memory, registers the
\* imports, instantiates, validates the ABI version, calls and decodes
\* builtins(), builds and publishes the registry, calls and decodes
\* entrypoints() and extracts the remaining export bindings; no export is
\* called before the version is validated
C30_ConstructionOrder == []C30_OrderInProgress /\ [][C30_OrderStep]_vars

\* entrypoints() is in flight and the registry is already published
C30_Witness ==
    /\ pc = "entrypoints"
    /\ loaded_builtins.set
    /\ log[Len(log) - 1] = <<"OnceCell::set">>
    /\ log[Len(log)] = <<"entrypoints">>
    /\ entrypoints = EmptyMap

\* the positions of load_json at which opa_malloc, opa_json_parse and
\* opa_free are in flight
LoadMallocPcs == {"wd_malloc", "c_malloc"}
LoadParsePcs == {"wd_parse", "c_parse"}

\* C31 as stated: a document whose serialisation is len bytes long is
\* loaded with opa_malloc(len), a write of len bytes and
\* opa_json_parse(ptr, len)
C31_AsStated ==
    LET len == Len(to_vec(ev.doc))
    IN  /\ pc \in LoadMallocPcs => log[Len(log)] = <<"opa_malloc", len>>
        /\ pc \in LoadParsePcs =>
              /\ log[Len(log) - 1] = <<"memory.write", ev.ptr, len>>
              /\ log[Len(log)] = <<"opa_json_parse", ev.ptr, len>>

\* while a load is in progress: opa_malloc was called with the length of
\* the serialisation and its NUL, the bytes written at the address it
\* returned are the serialisation followed by the NUL and no more, and
\* opa_json_parse is given that address and that same length; the same for
\* the result of a builtin
C31_SameLength ==
    LET len == Len(to_vec(ev.doc)) + 1
    IN  /\ pc \in LoadMallocPcs =>
              /\ log[Len(log)] = <<"opa_malloc", len>>
              /\ ev.bytes = to_vec(ev.doc) \o <<0>>
        /\ pc \in LoadParsePcs =>
              /\ log[Len(log) - 2] = <<"opa_malloc", len>>
              /\ log[Len(log) - 1] = <<"memory.write", ev.ptr, len>>
              /\ log[Len(log)] = <<"opa_json_parse", ev.ptr, len>>
              /\ \A i \in 1..len : ByteAt(mem, ev.ptr + i - 1) = ev.bytes[i]
        /\ tr.pc = "malloc" =>
              /\ tr.log[Len(tr.log)] = <<"opa_malloc", Len(tr.json)>>
              /\ tr.json[Len(tr.json)] = 0
              /\ \A i \in 1..(Len(tr.json) - 1) : tr.json[i] # 0
        /\ tr.pc = "parse" =>
              /\ tr.log[Len(tr.log) - 2] = <<"opa_malloc", Len(tr.json)>>
              /\ tr.log[Len(tr.log) - 1]
                    = <<"memory.write", tr.ptr, Len(tr.json)>>
              /\ tr.log[Len(tr.log)]
                    = <<"opa_json_parse", tr.ptr, Len(tr.json)>>
              /\ \A i \in DOMAIN tr.json :
                    ByteAt(mem, tr.ptr + i - 1) = tr.json[i]

\* the address written and parsed is the one opa_malloc returned, nothing
\* else of the memory is written, and the bytes of a builtin result are
\* the serialisation the function returned followed by a NUL
C31_WriteStep ==
    /\ (pc \in LoadMallocPcs /\ pc' \in LoadParsePcs) =>
          /\ ev'.ptr = heap
          /\ \A a \in DOMAIN mem' :
                (a < heap \/ a >= heap + Len(ev.bytes)) =>
                    (a \in DOMAIN mem /\ mem'[a] = mem[a])
    /\ (tr.pc = "malloc" /\ tr'.pc = "parse") =>
          /\ tr'.ptr = heap
          /\ \A a \in DOMAIN mem' :
                (a < heap \/ a >= heap + Len(tr.json)) =>
                    (a \in DOMAIN mem /\ mem'[a] = mem[a])
    /\ (tr.pc = "call" /\ tr'.pc = "malloc") =>
          \E rnd \in RndRange(tr.name, tr.args) :
              LET r == Builtin_call(tr.name, ctx, tr.args, rnd, clock)
              IN  r.ret.ok /\ tr'.json = Val(r.ret) \o <<0>>

\* C31 as the code has it: a value whose serialisation is len bytes long
\* is loaded with opa_malloc(len + 1), a write of the len bytes and a NUL
\* at the address returned, and opa_json_parse of that address with the
\* same len + 1
C31_AllocWriteParse == []C31_SameLength /\ [][C31_WriteStep]_vars

\* the input of a classic evaluation lies in the guest with its NUL and
\* opa_json_parse is in flight
C31_Witness ==
    /\ pc = "c_parse"
    /\ ev.doc \in InputDocs
    /\ log[Len(log)] = <<"opa_json_parse", ev.ptr, Len(to_vec(ev.doc)) + 1>>
    /\ ByteAt(mem, ev.ptr) = 123
    /\ ByteAt(mem, ev.ptr + Len(to_vec(ev.doc))) = 0

\* what with_data has called when opa_heap_ptr_get is in flight: the data
\* buffer was allocated, written, parsed and freed before
C32_ReadAfterLoad ==
    pc = "wd_heap_ptr_get" =>
        /\ EventNames(log) = <<"opa_malloc", "memory.write", "opa_json_parse",
                               "opa_free", "opa_heap_ptr_get">>
        /\ log[4] = <<"opa_free", ev.ptr>>
        /\ policy = NoPolicy

\* the Policy is built by with_data from the handle opa_json_parse returned
\* and the value opa_heap_ptr_get returned, and no step changes it after
C32_SavedOnce ==
    /\ policy' # policy =>
          /\ pc = "wd_heap_ptr_get" /\ pc' = "idle"
          /\ policy = NoPolicy
          /\ policy' = [data |-> ev.input, heap_ptr |-> heap]
    /\ (pc \in EvalPcs \cup {"idle"}) => policy' = policy

\* C32: with_data reads opa_heap_ptr_get() after the data buffer has been
\* parsed and freed and stores it as the saved pointer; no evaluate call
\* modifies the saved pointer or the data handle
C32_SavedPointer == []C32_ReadAfterLoad /\ [][C32_SavedOnce]_vars

\* a second evaluation runs with the guest heap moved on and the Policy
\* as with_data left it
C32_Witness ==
    /\ evals = 2
    /\ pc \in {"c_eval", "f_opa_eval"}
    /\ heap > policy.heap_ptr
    /\ policy.heap_ptr > policy.data
    /\ policy.data >= GuestHeapBase

\* C33 as stated: the delay after failed attempt number i is 500 * 2^i
\* milliseconds and delays come only between attempts, so that a call whose
\* attempts have all been made has slept once less than it has sent
C33_BackoffBetweenAttempts ==
    /\ \A i \in DOMAIN http.slept : http.slept[i] = 500 * (2 ^ (i - 1))
    /\ Len(http.slept) <= http.sent
    /\ (http.pc = "done" /\ http.sent > 0) =>
          Len(http.slept) <= http.sent - 1

\* C34: NulStr::read at addr returns the bytes from addr up to, not
\* including, the first zero byte at or after addr, and an error when addr
\* is negative, past the end of the memory, or followed by no zero byte
\* before the end of the memory
C34_ReadToNul ==
    (fcall.pc = "done" /\ fcall.name = "NulStr::read") =>
        LET m == fcall.args[1]
            size == fcall.args[2] * 65536
            addr == fcall.args[3]
            At(a) == IF a \in DOMAIN m THEN m[a] ELSE 0
            bytes == Val(fcall.ret)
        IN  /\ fcall.ret.ok =>
                  /\ addr >= 0
                  /\ addr + Len(bytes) < size
                  /\ \A i \in 1..Len(bytes) :
                        bytes[i] = At(addr + i - 1) /\ bytes[i] # 0
                  /\ At(addr + Len(bytes)) = 0
            /\ ~fcall.ret.ok =>
                  \/ addr < 0
                  \/ addr > size
                  \/ \A a \in addr..(size - 1) : At(a) # 0

\* a read that starts two bytes before the end of the first page of two
\* and stops at the zero that begins the second page
C34_Witness ==
    /\ fcall.pc = "done" /\ fcall.name = "NulStr::read"
    /\ fcall.args[2] = 2 /\ fcall.args[3] = 65534
    /\ fcall.ret = Ok(<<65, 255>>)

\* the same read on one page finds no zero byte and fails
C34_WitnessNoNul ==
    /\ fcall.pc = "done" /\ fcall.name = "NulStr::read"
    /\ fcall.args[2] = 1 /\ fcall.args[3] = 65534
    /\ fcall.args[1][65534] # 0 /\ fcall.args[1][65535] # 0
    /\ fcall.ret = Err("malformed string")

\* C35 as stated: for every handle with ptr >= 0 and len >= 0, pages()
\* returns ceil((ptr + len) / 65536)
C35_EndAndPages ==
    (fcall.pc = "done" /\ fcall.name = "Heap::pages") =>
        fcall.ret = Ok(CeilPages(fcall.args[1], fcall.args[2]))

\* the same for the handles whose end fits in an i32
C35_WithinI32 ==
    (fcall.pc = "done" /\ fcall.name = "Heap::pages"
     /\ fcall.args[1] <= i32_MAX - fcall.args[2]) =>
        /\ fcall.ret = Ok(CeilPages(fcall.args[1], fcall.args[2]))
        /\ Heap_end([ptr |-> fcall.args[1], len |-> fcall.args[2]])
              = fcall.args[1] + fcall.args[2]

\* the timestamp of a call of time.clock, time.date or time.weekday given a
\* number, or a number and the zone UTC
GivenNs ==
    IF fcall.args[1].t = "number" THEN fcall.args[1].n
    ELSE fcall.args[1].a[1].n
TimestampGiven ==
    /\ fcall.pc = "done" /\ fcall.name \in TimeFuncs
    /\ \/ fcall.args[1].t = "number"
       \/ /\ fcall.args[1].t = "array" /\ Len(fcall.args[1].a) = 2
          /\ fcall.args[1].a[1].t = "number"
          /\ fcall.args[1].a[2] = String("UTC")

\* the answer for the instant floor(ns / 10^9) seconds and ns mod 10^9
\* nanoseconds after the epoch
AtInstant(f, ns) ==
    LET secs == ns \div NsPerSec
        days == secs \div 86400
        sod == secs % 86400
    IN  CASE f = "time.clock" ->
               <<sod \div 3600, (sod % 3600) \div 60, sod % 60>>
          [] f = "time.date" -> civil_from_days(days)
          [] f = "time.weekday" -> weekday_of(days)

\* C36 as stated: time.clock, time.date and time.weekday take their
\* timestamp as nanoseconds since the epoch for every i64, negative ones
\* included: the instant is floor(ns / 10^9) seconds plus ns mod 10^9
\* nanoseconds, and a negative ns that is no multiple of 10^9 is converted
C36_NegativeConverted ==
    TimestampGiven => fcall.ret = Ok(AtInstant(fcall.name, GivenNs))

\* what the conversion does: the stated instant for a timestamp at or after
\* the epoch or a whole number of seconds before it, and an error for the
\* other timestamps before the epoch
C36_WholeOrAfterEpoch ==
    TimestampGiven =>
        IF GivenNs >= 0 \/ GivenNs % NsPerSec = 0
        THEN fcall.ret = Ok(AtInstant(fcall.name, GivenNs))
        ELSE fcall.ret = Err("No such local time")

\* one second before the epoch is converted: 23:59:59 on Wednesday
\* 1969-12-31
C36_WitnessWhole ==
    /\ TimestampGiven /\ GivenNs = 0 - NsPerSec
    /\ \/ fcall.name = "time.clock" /\ fcall.ret = Ok(<<23, 59, 59>>)
       \/ fcall.name = "time.date" /\ fcall.ret = Ok(<<1969, 12, 31>>)
       \/ fcall.name = "time.weekday" /\ fcall.ret = Ok("Wednesday")

\* the guest exports the trampoline calls once the function has returned Ok
AllocExports == {"opa_malloc", "opa_json_parse", "opa_free"}

\* the trampoline was at the call of the registered function and has returned
CallEnded == tr.pc = "call" /\ tr' = NoTr /\ result'.kind # "dropped"

\* C37: when the registered function of a builtin callback returns an error,
\* a failure to deserialise an argument included, the trampoline returns
\* that error without calling opa_malloc, opa_json_parse or opa_free: the
\* guest heap and memory are as they were and no Heap handle is dropped
\* unfreed; and the trampoline goes on to opa_malloc only after an Ok
C37_FailedCallStep ==
    /\ CallEnded =>
          /\ ~result'.ok /\ result'.by = <<"opa_builtin", tr.id>>
          /\ \E rnd \in RndRange(tr.name, tr.args) :
                LET r == Builtin_call(tr.name, ctx, tr.args, rnd, clock)
                IN  ~r.ret.ok /\ result'.err = r.ret.err
          /\ \A i \in DOMAIN tr.log : tr.log[i][1] \notin AllocExports
          /\ UNCHANGED gmv
          /\ ~result'.unfreed
          /\ ~locked'
    /\ (tr.pc = "call" /\ tr'.pc = "malloc") =>
          \E rnd \in RndRange(tr.name, tr.args) :
              Builtin_call(tr.name, ctx, tr.args, rnd, clock).ret.ok
C37_FailedCall == [][C37_FailedCallStep]_vars

\* an evaluation has failed in a builtin whose first argument did not
\* deserialise
C37_Witness ==
    /\ result.kind = "evaluate" /\ ~result.ok
    /\ Len(result.by) = 2 /\ result.by[1] = "opa_builtin"
    /\ result.err = "failed to convert first argument"
    /\ ~result.unfreed /\ tr = NoTr /\ pc = "idle"

\* the addresses whose byte a step changes
Changed ==
    {a \in DOMAIN mem \cup DOMAIN mem' : ByteAt(mem, a) # ByteAt(mem', a)}

\* the calls of name in a log
CallsOf(l, name) == {i \in DOMAIN l : l[i][1] = name}

\* while grow_async is awaited evaluate has written nothing; while opa_eval
\* runs, evaluate has written once, the input at the saved pointer, and has
\* freed nothing; what the trampolines write and free lies past the input
C38_OneWrite ==
    /\ pc = "f_grow" =>
          (CallsOf(log, "memory.write") = {} /\ CallsOf(log, "opa_free") = {})
    /\ (opa_eval_func /\ pc = "f_opa_eval") =>
        /\ ev.ptr = policy.heap_ptr /\ ev.len = Len(to_vec(ev.doc))
        /\ Cardinality(CallsOf(log, "memory.write")) = 1
        /\ \A i \in CallsOf(log, "memory.write") :
              log[i] = <<"memory.write", policy.heap_ptr, ev.len>>
        /\ CallsOf(log, "opa_free") = {}
        /\ \A i \in CallsOf(tr.log, "opa_free") \cup
                    CallsOf(tr.log, "memory.write") :
              tr.log[i][2] >= policy.heap_ptr + ev.len

\* a step of an evaluation on the fast path keeps the saved pointer and every
\* byte below it; the step that writes the input changes bytes of
\* [saved_ptr, saved_ptr + n) only and leaves the input there; and a handle
\* dropped unfreed is the one of a trampoline, never the one on the input
C38_WriteStep ==
    (opa_eval_func /\ pc \in EvalPcs) =>
        /\ policy' = policy
        /\ \A a \in Changed : a >= policy.heap_ptr
        /\ (pc \in {"ev_lock", "f_grow"} /\ pc' = "f_opa_eval") =>
              /\ \A a \in Changed :
                    a >= policy.heap_ptr /\ a < policy.heap_ptr + ev'.len
              /\ \A i \in 1..ev'.len :
                    ByteAt(mem', policy.heap_ptr + i - 1) = to_vec(ev.doc)[i]
        /\ (result' # result /\ result'.unfreed) =>
              tr.pc \in {"malloc", "parse", "free"}

\* C38: across any sequence of evaluations on a fast-path Policy, the only
\* write of evaluate into guest memory covers exactly
\* [saved_ptr, saved_ptr + n); the host never writes below the saved
\* pointer, never passes the region to opa_free, and dropping its handle
\* never logs the warning of an unfreed allocation
C38_ScratchRegion == []C38_OneWrite /\ [][C38_WriteStep]_vars

\* a second evaluation on the fast path has written its input at the saved
\* pointer, past which a first evaluation had moved the guest heap
C38_Witness ==
    /\ opa_eval_func /\ pc = "f_opa_eval" /\ evals >= 2
    /\ ev.len > 0 /\ ev.moved /\ ev.freed
    /\ log[2] = <<"memory.write", policy.heap_ptr, ev.len>>

\* an evaluation on the fast path has returned its result without a warning
C38_WitnessReturned ==
    /\ opa_eval_func /\ pc = "idle" /\ evals >= 2
    /\ result.kind = "evaluate" /\ result.ok /\ ~result.unfreed

\* a finished run of the fast path on an input of n bytes at saved_ptr
FastDone == fcall.pc = "done" /\ fcall.name = "evaluate_input"
\* n fits no i32, or saved_ptr + n exceeds 2^31 - 1
InputOutOfRange ==
    \/ fcall.args[2].hi # 0
    \/ fcall.args[1] > i32_MAX - fcall.args[2].lo

\* C39 as stated: on the fast path, when the input length n does not fit in
\* an i32 or saved_ptr + n exceeds 2^31 - 1, evaluate returns an error
\* before writing or calling opa_eval; it never panics and never passes a
\* wrapped (negative) address or page count to the guest or to grow
C39_ErrorNotPanic ==
    FastDone =>
        /\ InputOutOfRange => fcall.ret.kind = "err"
        /\ fcall.ret.kind # "panic"
        /\ fcall.ret.grow >= 0 /\ fcall.ret.at >= 0
        /\ fcall.ret.heap_ptr >= 0

\* what holds: a length that fits no i32 is refused with an error, and an
\* input that ends at or below 2^31 - 1 is written at the saved pointer with
\* its end as the heap pointer of opa_eval, or refused by the bounds check
\* or, when pages were asked for, by the Store
C39_WithinI32 ==
    FastDone =>
        /\ fcall.args[2].hi # 0 =>
              fcall.ret = FastOutcome("err", "input too long", 0, 0, 0)
        /\ fcall.ret.err = "failed to grow memory" =>
              (fcall.ret.kind = "err" /\ fcall.ret.grow > 0)
        /\ ~InputOutOfRange =>
              /\ fcall.ret.kind # "panic" /\ fcall.ret.grow >= 0
              /\ fcall.ret.kind = "opa_eval" =>
                    /\ fcall.ret.at = fcall.args[1]
                    /\ fcall.ret.heap_ptr
                         = fcall.args[1] + fcall.args[2].lo
                    /\ CeilPages(fcall.args[1], fcall.args[2].lo)
                         <= fcall.args[3] + fcall.ret.grow

====
